---- MODULE Spec2Model ----
(***************************************************************************)
(* A model of the metadata-store API (api/databases.py, api/config.py,     *)
(* api/records.py, api/files.py, api/utils.py).                            *)
(*                                                                         *)
(* The state is the content of the backend document store the handlers    *)
(* read and write through get_db_handler: the table of Database rows, one  *)
(* metadata table per database id and one config per database id.  Every  *)
(* action is one HTTP route handler, run from the request to the response: *)
(* its inputs (path parameters, body, what the permission gate answers)    *)
(* are drawn from small sets, and the response it returns is kept in resp. *)
(***************************************************************************)
EXTENDS Integers, Sequences, FiniteSets, TLC

VARIABLES
    databases,  \* the rows of the 'database' handler (a set of documents)
    meta,       \* meta[d]: the rows of the metadata table of database id d
    config,     \* config[d]: the config the handlers of database id d load
    resp,       \* the last response: route, parameters, status, documents
    gone,       \* the entity deleted last, until an entity of its id is created
    call        \* the last call outside the store: function, inputs, answer

vars == <<databases, meta, config, resp, gone, call>>

----------------------------------------------------------------------------
(* Bounds and input sets                                                   *)

\* The largest number of rows a metadata table holds in the model.
MaxRows == 2

DbIds == {"d1"}

\* What check_permissions answers a request in the model.
Permits == BOOLEAN
RecordIds == {"r1", "r2"}

\* JSON null as a value of a document.
Null == "null"

\* What an index column a row does not have contributes to the row's _uuid.
NoValue == "-"

----------------------------------------------------------------------------
(* Documents are functions from keys to values                             *)

EmptyDoc == [k \in {} |-> Null]

Restrict(f, S) == [k \in S |-> f[k]]

\* An update in which the values the document has win.
Merge_keeps_old(doc, patch) ==
    [k \in (DOMAIN doc) \cup (DOMAIN patch) |->
        IF k \in DOMAIN doc THEN doc[k] ELSE patch[k]]

\* dict.update(patch): the patch's values, an explicit null included, win.
Merge(doc, patch) ==
    [k \in (DOMAIN doc) \cup (DOMAIN patch) |->
        IF k \in DOMAIN patch THEN patch[k] ELSE doc[k]]

\* The elements of a sequence, as a set.
Range(s) == {s[i] : i \in 1..Len(s)}

\* The keys of the model that start with "_" or with ".".
UnderscoreKeys == {"_uuid", "_private"}
DotKeys == {".hidden"}

\* The keys escape_string(k, kind='key') does not leave as they are.
UnsanitaryKeys == {"a b"}

----------------------------------------------------------------------------
(* api/utils.py                                                            *)

\* validate_input_data: the exception it raises, "None" when it returns.
validate_input_data(data) ==
    IF \E k \in DOMAIN data :
           k \in UnderscoreKeys \cup DotKeys \cup UnsanitaryKeys
    THEN "InvalidData"
    ELSE "None"

\* filter_data: the keys that neither start with "_" nor are excluded.
filter_data(data, excludes) ==
    Restrict(data, {k \in DOMAIN data :
                        k \notin UnderscoreKeys /\ k \notin excludes})

\* get_secret_columns: the names of the columns marked is_secret.
get_secret_columns(cfg) ==
    {cfg.columns[i].name : i \in
        {j \in 1..Len(cfg.columns) :
            /\ "is_secret" \in DOMAIN cfg.columns[j]
            /\ cfg.columns[j].is_secret = TRUE}}

\* CheckPermissionClient.columns_to_filter: nothing for a caller the gate
\* permits 'metadata:read', the secret columns for any other caller.
columns_to_filter(cfg, readAll) ==
    IF readAll THEN {} ELSE get_secret_columns(cfg)

\* The status a route's except clauses give an exception; an exception no
\* clause catches leaves the route and is answered with 500.
StatusOf(exc, caught) ==
    IF exc = "None" THEN 200
    ELSE IF exc \in DOMAIN caught THEN caught[exc]
    ELSE 500

----------------------------------------------------------------------------
(* api/databases.py                                                        *)

\* The rows a read with pql 'database_id == "<d>"' finds.
DbRows(dbs, d) == {x \in dbs : x.database_id = d}

\* handler.add_data(doc) of the 'database' handler, whose rows are indexed by
\* database_id: the row of that id is replaced.
DbAddData(dbs, doc) ==
    {x \in dbs : x.database_id # doc.database_id} \cup {doc}

\* handler.save() of a handler of database id d ("Prepare database"): the
\* Database row of d exists afterwards, which _create_database relies on when
\* it calls _update_database right after it.
MetaSave(dbs, d) ==
    IF DbRows(dbs, d) = {}
    THEN dbs \cup {[database_id |-> d, _uuid |-> d]}
    ELSE dbs

_get_database(dbs, d) ==
    IF DbRows(dbs, d) = {}
    THEN [exc |-> "ObjectDoesNotExist", val |-> EmptyDoc]
    ELSE IF Cardinality(DbRows(dbs, d)) > 1
    THEN [exc |-> "InvalidObject", val |-> EmptyDoc]
    ELSE [exc |-> "None", val |-> CHOOSE x \in DbRows(dbs, d) : TRUE]

_update_database(dbs, d, info) ==
    LET got == _get_database(dbs, d) IN
    IF got.exc # "None"
    THEN [exc |-> got.exc, val |-> EmptyDoc, dbs |-> dbs]
    ELSE IF "database_id" \in DOMAIN info /\ d # info.database_id
    THEN [exc |-> "AssertionError", val |-> EmptyDoc, dbs |-> dbs]
    ELSE LET doc == Merge(got.val, info) IN
         [exc |-> "None", val |-> doc, dbs |-> DbAddData(dbs, doc)]

_create_database(dbs, info) ==
    IF "database_id" \notin DOMAIN info
    THEN [exc |-> "AssertionError", val |-> EmptyDoc, dbs |-> dbs]
    ELSE LET got == _get_database(dbs, info.database_id) IN
         IF got.exc = "None"
         THEN [exc |-> "ObjectExists", val |-> EmptyDoc, dbs |-> dbs]
         ELSE IF got.exc # "ObjectDoesNotExist"
         THEN [exc |-> got.exc, val |-> EmptyDoc, dbs |-> dbs]
         ELSE _update_database(MetaSave(dbs, info.database_id),
                               info.database_id, info)

\* The metadata table and the config of d are left in the store ("TODO: Remove
\* the corresponding table for metadata"): only the Database row is removed.
_delete_database(dbs, d) ==
    LET got == _get_database(dbs, d) IN
    IF got.exc # "None"
    THEN [exc |-> got.exc, dbs |-> dbs]
    ELSE [exc |-> "None", dbs |-> dbs \ {got.val}]

----------------------------------------------------------------------------
(* Responses                                                               *)

\* A request and its response: the route, its database id, its record id or
\* uuid, its body, the status, the exception that ended the route ("None" on
\* success) and the documents of the response body (one for a document, the
\* items for a list, none on an error).
\* excluded holds what columns_to_filter answers for the caller on d.
Response(op, d, id, uuid, data, exc, caught, docs, excluded) ==
    [op |-> op, db |-> d, id |-> id, uuid |-> uuid, data |-> data,
     status |-> StatusOf(exc, caught), exc |-> exc,
     docs |-> IF exc = "None" THEN docs ELSE << >>,
     excluded |-> excluded]

NoId == "-"

\* An entity that was deleted: its kind, database id, and record id or uuid.
Gone(kind, d, rid, uuid) == [kind |-> kind, db |-> d, rid |-> rid, uuid |-> uuid]
NoGone == Gone("none", NoId, NoId, EmptyDoc)

\* No call outside the store was made yet.
NoCall == [fn |-> "none"]

\* What the routes' except clauses catch.
CaughtCreateDatabase ==
    [PermissionError |-> 403, AssertionError |-> 400, ObjectExists |-> 400,
     InvalidData |-> 400, InvalidObject |-> 400]
CaughtGetDatabase == [ObjectDoesNotExist |-> 404, PermissionError |-> 403]
CaughtUpdateDatabase ==
    [ObjectDoesNotExist |-> 404, PermissionError |-> 403,
     AssertionError |-> 400, InvalidData |-> 400, InvalidObject |-> 400]
CaughtDeleteDatabase == [ObjectDoesNotExist |-> 404, PermissionError |-> 403]

\* The bodies of POST /databases and PATCH /databases/{id} the model sends.
DatabasePayloads ==
    {[database_id |-> d] : d \in DbIds} \cup {[name |-> "v1"]}
DatabasePatches == {[name |-> "v2"], [database_id |-> "abc"]}

\* The exception of the steps a write route takes before its repository call:
\* validate_input_data, then check_permissions.
Gate(data, permitted) ==
    IF validate_input_data(data) # "None" THEN validate_input_data(data)
    ELSE IF ~permitted THEN "PermissionError"
    ELSE "None"

\* What columns_to_filter(database_id) answers: the secret columns of the
\* config of the database, for a caller the gate does not permit to read all.
Excluded(d, readAll) ==
    IF d \in DbIds THEN columns_to_filter(config[d], readAll) ELSE {}

\* gone after a create that stores a Database row of id d.
CreatedDatabase(d) ==
    IF gone = Gone("database", d, d, EmptyDoc) THEN NoGone ELSE gone

\* gone after a create that stores a row of record id rid and uuid u in d.
CreatedRow(d, rid, u) ==
    IF gone \in {Gone("record", d, rid, EmptyDoc), Gone("file", d, NoId, u)}
    THEN NoGone ELSE gone

----------------------------------------------------------------------------
(* The routes of api/databases.py                                          *)

create_database(data, permitted, readAll) ==
    LET pre == IF validate_input_data(data) # "None"
               THEN validate_input_data(data)
               ELSE IF "database_id" \notin DOMAIN data THEN "KeyError"
               ELSE IF ~permitted THEN "PermissionError"
               ELSE "None"
        r == IF pre # "None"
             THEN [exc |-> pre, val |-> EmptyDoc, dbs |-> databases]
             ELSE _create_database(databases, data)
        d == IF "database_id" \in DOMAIN data THEN data.database_id ELSE NoId
    IN  /\ databases' = r.dbs
        /\ resp' = Response("create_database", d, d, EmptyDoc, data, r.exc,
                            CaughtCreateDatabase,
                            <<filter_data(r.val, {})>>, Excluded(d, readAll))
        /\ gone' = IF r.exc = "None" THEN CreatedDatabase(d) ELSE gone
        /\ UNCHANGED <<meta, config>>

get_database(d, permitted, readAll) ==
    LET r == IF ~permitted
             THEN [exc |-> "PermissionError", val |-> EmptyDoc]
             ELSE _get_database(databases, d)
    IN  /\ resp' = Response("get_database", d, d, EmptyDoc, EmptyDoc, r.exc, CaughtGetDatabase,
                            <<filter_data(r.val, {})>>, Excluded(d, readAll))
        /\ UNCHANGED <<databases, meta, config, gone>>

update_database(d, data, permitted, readAll) ==
    LET pre == Gate(data, permitted)
        r == IF pre # "None"
             THEN [exc |-> pre, val |-> EmptyDoc, dbs |-> databases]
             ELSE _update_database(databases, d, data)
    IN  /\ databases' = r.dbs
        /\ resp' = Response("update_database", d, d, EmptyDoc, data, r.exc,
                            CaughtUpdateDatabase,
                            <<filter_data(r.val, {})>>, Excluded(d, readAll))
        /\ UNCHANGED <<meta, config, gone>>

delete_database(d, permitted, readAll) ==
    LET r == IF ~permitted
             THEN [exc |-> "PermissionError", dbs |-> databases]
             ELSE _delete_database(databases, d)
    IN  /\ databases' = r.dbs
        /\ resp' = Response("delete_database", d, d, EmptyDoc, EmptyDoc, r.exc,
                            CaughtDeleteDatabase, <<[database_id |-> d]>>,
                            Excluded(d, readAll))
        /\ gone' = IF r.exc = "None"
                   THEN Gone("database", d, d, EmptyDoc) ELSE gone
        /\ UNCHANGED <<meta, config>>

----------------------------------------------------------------------------
(* The config of a database                                                *)

\* The config a handler of a database has before any update_config: the
\* columns record_id (aggregated with "first") and path (not aggregated with
\* "first"), both index columns (test_patch_record_400, test_patch_record_400_2).
DefaultColumns ==
    << [name |-> "record_id", dtype |-> "string", aggregation |-> "first"],
       [name |-> "path", dtype |-> "string", aggregation |-> "push"] >>
DefaultConfig ==
    [columns |-> DefaultColumns, index_columns |-> <<"record_id", "path">>]

\* The column the fixtures of the tests add: a secret column.
SecretColumn ==
    [name |-> "description", dtype |-> "string", aggregation |-> "first",
     is_secret |-> TRUE]

\* Columns that lack one of the keys every column must have.
NoNameColumn == [dtype |-> "string", aggregation |-> "first"]
NoDtypeColumn == [name |-> "description", aggregation |-> "first"]
NoAggregationColumn == [name |-> "description", dtype |-> "string"]

\* The bodies of PATCH /databases/{id}/config the model sends.
ColumnLists ==
    { DefaultColumns,
      DefaultColumns \o <<SecretColumn>>,
      << >>,
      <<DefaultColumns[1], [name |-> "", dtype |-> "string",
                            aggregation |-> "push"]>>,
      DefaultColumns \o <<SecretColumn, NoNameColumn>>,
      <<NoNameColumn>>,
      DefaultColumns \o <<NoDtypeColumn>>,
      DefaultColumns \o <<NoAggregationColumn>> }
IndexLists == { << >>, <<"path">>, <<"record_id">>, <<"record_id", "path">> }
ConfigPatches ==
    {[columns |-> c] : c \in ColumnLists}
    \cup {[index_columns |-> i] : i \in IndexLists}
    \cup {[columns |-> c, index_columns |-> << >>] :
            c \in {DefaultColumns \o <<SecretColumn>>, <<NoNameColumn>>}}
    \cup {[_private |-> << >>]}

\* [c['name'] for c in columns], for columns that all have a name.
ColumnNames(columns) == {columns[i].name : i \in 1..Len(columns)}

HasAllNames(columns) == \A i \in 1..Len(columns) : "name" \in DOMAIN columns[i]

\* The per-column asserts of _update_config.
WellFormedColumn(column) ==
    /\ "name" \in DOMAIN column
    /\ "dtype" \in DOMAIN column
    /\ "aggregation" \in DOMAIN column

_get_config(dbs, cfg, d) ==
    LET got == _get_database(dbs, d) IN
    IF got.exc # "None"
    THEN [exc |-> got.exc, val |-> EmptyDoc]
    ELSE [exc |-> "None", val |-> cfg]

\* _update_config: the list of the new names is built first, which fails with
\* KeyError on a column without 'name'; then the asserts; then the update.
_update_config(dbs, cfg, d, patch) ==
    LET got == _get_database(dbs, d)
        keep == [exc |-> "AssertionError", val |-> EmptyDoc, cfg |-> cfg]
    IN
    IF got.exc # "None"
    THEN [exc |-> got.exc, val |-> EmptyDoc, cfg |-> cfg]
    ELSE IF "columns" \in DOMAIN patch /\ ~HasAllNames(patch.columns)
    THEN [exc |-> "KeyError", val |-> EmptyDoc, cfg |-> cfg]
    ELSE IF "columns" \in DOMAIN patch
            /\ ~(ColumnNames(cfg.columns) \subseteq ColumnNames(patch.columns))
    THEN keep
    ELSE IF "columns" \in DOMAIN patch
            /\ \E i \in 1..Len(patch.columns) : ~WellFormedColumn(patch.columns[i])
    THEN keep
    ELSE IF "index_columns" \in DOMAIN patch /\ Len(patch.index_columns) = 0
    THEN keep
    ELSE [exc |-> "None", val |-> Merge(cfg, patch), cfg |-> Merge(cfg, patch)]

CaughtConfig ==
    [AssertionError |-> 400, InvalidData |-> 400, PermissionError |-> 403,
     ObjectDoesNotExist |-> 404, InvalidObject |-> 500]

get_config(d, permitted, readAll) ==
    LET r == IF ~permitted
             THEN [exc |-> "PermissionError", val |-> EmptyDoc]
             ELSE _get_config(databases, config[d], d)
    IN  /\ resp' = Response("get_config", d, NoId, EmptyDoc, EmptyDoc, r.exc, CaughtConfig,
                            <<filter_data(r.val, {})>>, Excluded(d, readAll))
        /\ UNCHANGED <<databases, meta, config, gone>>

update_config(d, data, permitted, readAll) ==
    LET pre == Gate(data, permitted)
        r == IF pre # "None"
             THEN [exc |-> pre, val |-> EmptyDoc, cfg |-> config[d]]
             ELSE _update_config(databases, config[d], d, data)
    IN  /\ config' = [config EXCEPT ![d] = r.cfg]
        /\ databases' = IF r.exc = "None" THEN MetaSave(databases, d)
                        ELSE databases
        /\ resp' = Response("update_config", d, NoId, EmptyDoc, data, r.exc, CaughtConfig,
                            <<filter_data(r.val, {})>>, Excluded(d, readAll))
        /\ UNCHANGED <<meta, gone>>

----------------------------------------------------------------------------
(* The metadata table of a database (the 'record' and 'file' handlers)     *)

\* The _uuid of a new row: made of its values of the index columns.
Uuid(doc, cfg) ==
    [k \in Range(cfg.index_columns) |->
        IF k \in DOMAIN doc THEN doc[k] ELSE NoValue]

\* handler.add_data(doc): a row that has no _uuid gets one; the row of the
\* same _uuid, if any, is overwritten.
MetaAddData(rows, cfg, doc) ==
    LET u == IF "_uuid" \in DOMAIN doc THEN doc["_uuid"] ELSE Uuid(doc, cfg)
        row == Merge(doc, [_uuid |-> u])
    IN  {x \in rows : x["_uuid"] # u} \cup {row}

\* The rows a read with pql 'record_id == "<rid>"' finds.
RecordRows(rows, rid) ==
    {x \in rows : "record_id" \in DOMAIN x /\ x.record_id = rid}

\* The rows a read with pql '_uuid == "<uuid>"' finds.
FileRows(rows, uuid) == {x \in rows : x["_uuid"] = uuid}

\* A read with group_by='record_id': the rows of one record id as one
\* document, which has every key of the rows, with a value one of the rows
\* holds for it.
GroupedDoc(group) ==
    [k \in UNION {DOMAIN x : x \in group} |->
        (CHOOSE x \in group : k \in DOMAIN x)[k]]

\* The record ids of the rows of a table.
RecordIdsOf(rows) == {x.record_id : x \in {y \in rows : "record_id" \in DOMAIN y}}

----------------------------------------------------------------------------
(* api/records.py                                                          *)

_get_record(rows, rid) ==
    IF RecordRows(rows, rid) = {}
    THEN [exc |-> "ObjectDoesNotExist", val |-> EmptyDoc]
    ELSE [exc |-> "None", val |-> GroupedDoc(RecordRows(rows, rid))]

\* info with the generated record id, when it names none.
WithRecordId(info, generated) ==
    IF "record_id" \in DOMAIN info THEN info
    ELSE Merge(info, [record_id |-> generated])

_create_record(dbs, rows, cfg, d, info) ==
    LET got == _get_database(dbs, d) IN
    IF got.exc # "None"
    THEN [exc |-> got.exc, val |-> EmptyDoc, rows |-> rows, dbs |-> dbs]
    ELSE [exc |-> "None", val |-> info,
          rows |-> MetaAddData(rows, cfg, info), dbs |-> MetaSave(dbs, d)]

\* "List-up keys whose values are different from those on DB".
keys_to_add(group, info) ==
    {k \in DOMAIN info : \E x \in group : k \notin DOMAIN x}
keys_to_update(group, info) ==
    {k \in DOMAIN info : \E x \in group : k \in DOMAIN x /\ x[k] # info[k]}

\* The column info of a key: the first column of that name.
ColumnInfo(cfg, key) ==
    cfg.columns[CHOOSE i \in 1..Len(cfg.columns) :
                    /\ cfg.columns[i].name = key
                    /\ \A j \in 1..(i - 1) : cfg.columns[j].name # key]

\* "Check keys" without its second test.
KeyRefused_index_only(cfg, key) == key \in Range(cfg.index_columns)

\* "Check keys": whether the key makes _update_record raise InvalidData.
KeyRefused(cfg, key) ==
    \/ key \in Range(cfg.index_columns)
    \/ /\ key \in ColumnNames(cfg.columns)
       /\ "aggregation" \in DOMAIN ColumnInfo(cfg, key)
       /\ ColumnInfo(cfg, key).aggregation # "first"

\* "Update data one-by-one" that stops after one row.
PatchRows_first_row(rows, group, info) ==
    LET x == CHOOSE y \in group : TRUE IN
    (rows \ {x}) \cup {Merge(x, info)}

\* "Update data one-by-one": every row of the group, patched, overwrites the
\* row of its _uuid.
PatchRows(rows, group, info) ==
    (rows \ group) \cup {Merge(x, info) : x \in group}

_update_record(dbs, rows, cfg, d, rid, info) ==
    LET got == _get_record(rows, rid)
        group == RecordRows(rows, rid)
        keys == keys_to_add(group, info) \cup keys_to_update(group, info)
    IN
    IF got.exc # "None"
    THEN [exc |-> got.exc, val |-> EmptyDoc, rows |-> rows, dbs |-> dbs]
    ELSE IF \E k \in keys : KeyRefused(cfg, k)
    THEN [exc |-> "InvalidData", val |-> EmptyDoc, rows |-> rows, dbs |-> dbs]
    ELSE LET new == PatchRows(rows, group, info)
             again == _get_record(new, rid)
         IN  [exc |-> again.exc, val |-> again.val, rows |-> new,
              dbs |-> MetaSave(dbs, d)]

_delete_record(dbs, rows, d, rid) ==
    LET got == _get_record(rows, rid) IN
    IF got.exc # "None"
    THEN [exc |-> got.exc, rows |-> rows, dbs |-> dbs]
    ELSE [exc |-> "None", rows |-> rows \ RecordRows(rows, rid),
          dbs |-> MetaSave(dbs, d)]

\* validate_sort_key with the default sort key of the route.
validate_sort_key(sort_key, cfg) ==
    IF HasAllNames(cfg.columns) /\ sort_key \in ColumnNames(cfg.columns)
    THEN "None" ELSE "InvalidSortKey"

\* The items of a set of documents as a list (the order the read returns).
RECURSIVE SeqOf(_)
SeqOf(S) ==
    IF S = {} THEN << >>
    ELSE LET x == CHOOSE y \in S : TRUE IN <<x>> \o SeqOf(S \ {x})

_list_records(dbs, rows, cfg, d) ==
    LET got == _get_database(dbs, d) IN
    IF got.exc # "None"
    THEN [exc |-> got.exc, val |-> << >>]
    ELSE IF validate_sort_key("record_id", cfg) # "None"
    THEN [exc |-> "InvalidSortKey", val |-> << >>]
    ELSE [exc |-> "None",
          val |-> SeqOf({GroupedDoc(RecordRows(rows, rid)) :
                            rid \in RecordIdsOf(rows)})]

CaughtListRecords ==
    [ObjectDoesNotExist |-> 404, PermissionError |-> 403,
     AssertionError |-> 400, InvalidSortKey |-> 400, REError |-> 400]
CaughtCreateRecord ==
    [PermissionError |-> 403, AssertionError |-> 400, InvalidData |-> 400,
     ObjectDoesNotExist |-> 404]
CaughtGetRecord ==
    [AssertionError |-> 400, PermissionError |-> 403,
     ObjectDoesNotExist |-> 404, InvalidObject |-> 500]
CaughtUpdateRecord ==
    [AssertionError |-> 400, InvalidData |-> 400, PermissionError |-> 403,
     ObjectDoesNotExist |-> 404, InvalidObject |-> 500]
CaughtDeleteRecord == [PermissionError |-> 403, ObjectDoesNotExist |-> 404]

\* The map of a function over the items of a list.
FilterAll(docs, excludes) ==
    [i \in 1..Len(docs) |-> filter_data(docs[i], excludes)]

list_records(d, permitted, readAll) ==
    LET r == IF ~permitted THEN [exc |-> "PermissionError", val |-> << >>]
             ELSE _list_records(databases, meta[d], config[d], d)
    IN  /\ resp' = Response("list_records", d, NoId, EmptyDoc, EmptyDoc, r.exc,
                            CaughtListRecords,
                            FilterAll(r.val, Excluded(d, readAll)),
                            Excluded(d, readAll))
        /\ UNCHANGED <<databases, meta, config, gone>>

create_record(d, data, generated, permitted, readAll) ==
    LET pre == Gate(data, permitted)
        info == WithRecordId(data, generated)
        r == IF pre # "None"
             THEN [exc |-> pre, val |-> EmptyDoc, rows |-> meta[d],
                   dbs |-> databases]
             ELSE _create_record(databases, meta[d], config[d], d, info)
    IN  /\ "record_id" \notin DOMAIN data => generated \notin RecordIdsOf(meta[d])
        /\ Cardinality(r.rows) <= MaxRows
        /\ meta' = [meta EXCEPT ![d] = r.rows]
        /\ databases' = r.dbs
        /\ resp' = Response("create_record", d, info.record_id, EmptyDoc, data,
                            r.exc, CaughtCreateRecord,
                            <<filter_data(r.val, Excluded(d, readAll))>>,
                            Excluded(d, readAll))
        /\ gone' = IF r.exc = "None"
                   THEN CreatedRow(d, info.record_id, Uuid(info, config[d]))
                   ELSE gone
        /\ UNCHANGED config

get_record(d, rid, permitted, readAll) ==
    LET r == IF ~permitted THEN [exc |-> "PermissionError", val |-> EmptyDoc]
             ELSE _get_record(meta[d], rid)
    IN  /\ resp' = Response("get_record", d, rid, EmptyDoc, EmptyDoc, r.exc,
                            CaughtGetRecord,
                            <<filter_data(r.val, Excluded(d, readAll))>>,
                            Excluded(d, readAll))
        /\ UNCHANGED <<databases, meta, config, gone>>

update_record(d, rid, data, permitted, readAll) ==
    LET pre == Gate(data, permitted)
        r == IF pre # "None"
             THEN [exc |-> pre, val |-> EmptyDoc, rows |-> meta[d],
                   dbs |-> databases]
             ELSE _update_record(databases, meta[d], config[d], d, rid, data)
    IN  /\ meta' = [meta EXCEPT ![d] = r.rows]
        /\ databases' = r.dbs
        /\ resp' = Response("update_record", d, rid, EmptyDoc, data, r.exc,
                            CaughtUpdateRecord,
                            <<filter_data(r.val, Excluded(d, readAll))>>,
                            Excluded(d, readAll))
        /\ UNCHANGED <<config, gone>>

delete_record(d, rid, permitted, readAll) ==
    LET r == IF ~permitted
             THEN [exc |-> "PermissionError", rows |-> meta[d],
                   dbs |-> databases]
             ELSE _delete_record(databases, meta[d], d, rid)
    IN  /\ meta' = [meta EXCEPT ![d] = r.rows]
        /\ databases' = r.dbs
        /\ resp' = Response("delete_record", d, rid, EmptyDoc, EmptyDoc, r.exc,
                            CaughtDeleteRecord,
                            <<[database_id |-> d, record_id |-> rid]>>,
                            Excluded(d, readAll))
        /\ gone' = IF r.exc = "None" THEN Gone("record", d, rid, EmptyDoc)
                   ELSE gone
        /\ UNCHANGED config

----------------------------------------------------------------------------
(* api/files.py                                                            *)

\* _expose_uuid: "Expose _uuid as uuid".
_expose_uuid(data) ==
    IF "_uuid" \in DOMAIN data /\ "uuid" \notin DOMAIN data
    THEN Merge(data, [uuid |-> data["_uuid"]])
    ELSE data

ExposeAll(docs) == [i \in 1..Len(docs) |-> _expose_uuid(docs[i])]

_list_files(dbs, rows, cfg, d) ==
    LET got == _get_database(dbs, d) IN
    IF got.exc # "None"
    THEN [exc |-> got.exc, val |-> << >>]
    ELSE IF validate_sort_key("path", cfg) # "None"
    THEN [exc |-> "InvalidSortKey", val |-> << >>]
    ELSE [exc |-> "None", val |-> SeqOf(rows)]

_create_file(dbs, rows, cfg, d, info) ==
    LET got == _get_database(dbs, d) IN
    IF "path" \notin DOMAIN info
    THEN [exc |-> "AssertionError", val |-> EmptyDoc, rows |-> rows,
          dbs |-> dbs]
    ELSE IF got.exc # "None"
    THEN [exc |-> got.exc, val |-> EmptyDoc, rows |-> rows, dbs |-> dbs]
    ELSE [exc |-> "None", val |-> Merge(info, [_uuid |-> Uuid(info, cfg)]),
          rows |-> MetaAddData(rows, cfg, info), dbs |-> MetaSave(dbs, d)]

_get_file(rows, uuid) ==
    IF FileRows(rows, uuid) = {}
    THEN [exc |-> "ObjectDoesNotExist", val |-> EmptyDoc]
    ELSE IF Cardinality(FileRows(rows, uuid)) > 1
    THEN [exc |-> "InvalidObject", val |-> EmptyDoc]
    ELSE [exc |-> "None", val |-> CHOOSE x \in FileRows(rows, uuid) : TRUE]

\* _update_file lists only the keys the row has with another value, and
\* refuses those that are index columns.
_update_file(dbs, rows, cfg, d, uuid, info) ==
    LET got == _get_file(rows, uuid)
        group == FileRows(rows, uuid)
    IN
    IF got.exc # "None"
    THEN [exc |-> got.exc, val |-> EmptyDoc, rows |-> rows, dbs |-> dbs]
    ELSE IF \E k \in keys_to_update(group, info) :
                k \in Range(cfg.index_columns)
    THEN [exc |-> "InvalidData", val |-> EmptyDoc, rows |-> rows, dbs |-> dbs]
    ELSE [exc |-> "None", val |-> info, rows |-> PatchRows(rows, group, info),
          dbs |-> MetaSave(dbs, d)]

_delete_file(dbs, rows, d, uuid) ==
    LET got == _get_file(rows, uuid) IN
    IF got.exc # "None"
    THEN [exc |-> got.exc, rows |-> rows, dbs |-> dbs]
    ELSE [exc |-> "None", rows |-> rows \ FileRows(rows, uuid),
          dbs |-> MetaSave(dbs, d)]

CaughtListFiles ==
    [AssertionError |-> 400, InvalidSortKey |-> 400, REError |-> 400,
     PermissionError |-> 403, ObjectDoesNotExist |-> 404]
CaughtCreateFile ==
    [PermissionError |-> 403, AssertionError |-> 400, InvalidData |-> 400,
     ObjectDoesNotExist |-> 404]
CaughtGetFile ==
    [AssertionError |-> 400, PermissionError |-> 403,
     ObjectDoesNotExist |-> 404, InvalidObject |-> 500]
CaughtUpdateFile ==
    [AssertionError |-> 400, InvalidData |-> 400, PermissionError |-> 403,
     ObjectDoesNotExist |-> 404, InvalidObject |-> 500]
CaughtDeleteFile == [PermissionError |-> 403, ObjectDoesNotExist |-> 404]

\* The uuids a request names: those of the stored rows, one a row gets under
\* the default config, and the uuid of the file deleted last.
Uuids(d) ==
    {x["_uuid"] : x \in meta[d]}
    \cup {Uuid([record_id |-> "r1", path |-> "p1"], DefaultConfig)}
    \cup (IF gone.kind = "file" THEN {gone.uuid} ELSE {})

list_files(d, permitted, readAll) ==
    LET r == IF ~permitted THEN [exc |-> "PermissionError", val |-> << >>]
             ELSE _list_files(databases, meta[d], config[d], d)
    IN  /\ resp' = Response("list_files", d, NoId, EmptyDoc, EmptyDoc, r.exc,
                            CaughtListFiles,
                            FilterAll(ExposeAll(r.val), Excluded(d, readAll)),
                            Excluded(d, readAll))
        /\ UNCHANGED <<databases, meta, config, gone>>

create_file(d, data, permitted, readAll) ==
    LET pre == Gate(data, permitted)
        r == IF pre # "None"
             THEN [exc |-> pre, val |-> EmptyDoc, rows |-> meta[d],
                   dbs |-> databases]
             ELSE _create_file(databases, meta[d], config[d], d, data)
        rid == IF "record_id" \in DOMAIN data THEN data.record_id ELSE NoId
    IN  /\ Cardinality(r.rows) <= MaxRows
        /\ meta' = [meta EXCEPT ![d] = r.rows]
        /\ databases' = r.dbs
        /\ resp' = Response("create_file", d, rid, Uuid(data, config[d]), data,
                            r.exc, CaughtCreateFile,
                            <<filter_data(_expose_uuid(r.val), {})>>,
                            Excluded(d, readAll))
        /\ gone' = IF r.exc = "None"
                   THEN CreatedRow(d, rid, Uuid(data, config[d]))
                   ELSE gone
        /\ UNCHANGED config

get_file(d, uuid, permitted, readAll) ==
    LET r == IF ~permitted THEN [exc |-> "PermissionError", val |-> EmptyDoc]
             ELSE _get_file(meta[d], uuid)
    IN  /\ resp' = Response("get_file", d, NoId, uuid, EmptyDoc, r.exc, CaughtGetFile,
                            <<filter_data(_expose_uuid(r.val),
                                          Excluded(d, readAll))>>,
                            Excluded(d, readAll))
        /\ UNCHANGED <<databases, meta, config, gone>>

update_file(d, uuid, data, permitted, readAll) ==
    LET pre == Gate(data, permitted)
        r == IF pre # "None"
             THEN [exc |-> pre, val |-> EmptyDoc, rows |-> meta[d],
                   dbs |-> databases]
             ELSE _update_file(databases, meta[d], config[d], d, uuid, data)
    IN  /\ meta' = [meta EXCEPT ![d] = r.rows]
        /\ databases' = r.dbs
        /\ resp' = Response("update_file", d, NoId, uuid, data, r.exc,
                            CaughtUpdateFile,
                            <<filter_data(_expose_uuid(r.val), {})>>,
                            Excluded(d, readAll))
        /\ UNCHANGED <<config, gone>>

delete_file(d, uuid, permitted, readAll) ==
    LET r == IF ~permitted
             THEN [exc |-> "PermissionError", rows |-> meta[d],
                   dbs |-> databases]
             ELSE _delete_file(databases, meta[d], d, uuid)
    IN  /\ meta' = [meta EXCEPT ![d] = r.rows]
        /\ databases' = r.dbs
        /\ resp' = Response("delete_file", d, NoId, uuid, EmptyDoc, r.exc,
                            CaughtDeleteFile,
                            <<[database_id |-> d, uuid |-> uuid]>>,
                            Excluded(d, readAll))
        /\ gone' = IF r.exc = "None" THEN Gone("file", d, NoId, uuid)
                   ELSE gone
        /\ UNCHANGED config

----------------------------------------------------------------------------
(* The specifications                                                      *)

Init ==
    /\ databases = {}
    /\ meta = [d \in DbIds |-> {}]
    /\ config = [d \in DbIds |-> DefaultConfig]
    /\ resp = Response("none", NoId, NoId, EmptyDoc, EmptyDoc, "None",
                       [PermissionError |-> 403], << >>, {})
    /\ gone = NoGone
    /\ call = NoCall

\* Spec: the routes that create and update what the store holds, and the
\* deletion of a database, called by a permitted caller: records of one and of
\* two files, and patches of the index columns, of a column that is not
\* aggregated with "first" and of a key that is no column.
StoreRecords ==
    { [record_id |-> "r1", path |-> "p1", description |-> "v1"],
      [record_id |-> "r2", path |-> "p1"] }
StoreFiles == { [record_id |-> "r1", path |-> "p2"] }
StorePatches ==
    { [description |-> Null],
      [record_id |-> "r2", description |-> Null],
      [path |-> "p2", description |-> Null],
      [record_id |-> "r1"] }
StoreFilePatches ==
    { [record_id |-> "r2", description |-> Null],
      [path |-> "p2", description |-> Null] }
StoreIndexLists == { <<"path">>, <<"record_id">>, <<"record_id", "path">> }

Next ==
    \E d \in DbIds :
        \/ create_database([database_id |-> d], TRUE, TRUE) /\ UNCHANGED call
        \/ update_database(d, [database_id |-> d], TRUE, TRUE) /\ UNCHANGED call
        \/ delete_database(d, TRUE, TRUE) /\ UNCHANGED call
        \/ \E i \in StoreIndexLists :
               update_config(d, [index_columns |-> i], TRUE, TRUE) /\ UNCHANGED call
        \/ \E data \in StoreRecords : create_record(d, data, "r1", TRUE, TRUE) /\ UNCHANGED call
        \/ \E rid \in RecordIds, data \in StorePatches :
               update_record(d, rid, data, TRUE, TRUE) /\ UNCHANGED call
        \/ \E data \in StoreFiles : create_file(d, data, TRUE, TRUE) /\ UNCHANGED call
        \/ \E uuid \in Uuids(d), data \in StoreFilePatches :
               update_file(d, uuid, data, TRUE, TRUE) /\ UNCHANGED call

Spec == Init /\ [][Next]_vars

\* SpecConfig: the routes of the config of a database, and the creation and
\* the deletion of the database.
NextConfig ==
    \E d \in DbIds, permitted \in Permits, readAll \in BOOLEAN :
        \/ create_database([database_id |-> d], permitted, readAll) /\ UNCHANGED call
        \/ delete_database(d, permitted, readAll) /\ UNCHANGED call
        \/ get_config(d, permitted, readAll) /\ UNCHANGED call
        \/ \E data \in ConfigPatches : update_config(d, data, permitted, readAll) /\ UNCHANGED call

SpecConfig == Init /\ [][NextConfig]_vars

\* SpecAll: every route, called by callers the gate permits the action and
\* does or does not permit to read the secret columns.
AllConfigPatches == { [columns |-> DefaultColumns \o <<SecretColumn>>] }
AllRecordPayloads ==
    { [record_id |-> "r1", path |-> "p1", description |-> "v1"],
      [path |-> "p2"], [_private |-> "v1"] }
AllFilePayloads ==
    { [record_id |-> "r1", path |-> "p1", description |-> "v1"],
      [record_id |-> "r1"], [_private |-> "v1"] }
AllPatches == { [description |-> "v2"], [_private |-> "v1"] }

NextAll ==
    \E d \in DbIds, readAll \in BOOLEAN :
        \/ \E data \in DatabasePayloads :
               create_database(data, TRUE, readAll) /\ UNCHANGED call
        \/ get_database(d, TRUE, readAll) /\ UNCHANGED call
        \/ \E data \in DatabasePatches :
               update_database(d, data, TRUE, readAll) /\ UNCHANGED call
        \/ delete_database(d, TRUE, readAll) /\ UNCHANGED call
        \/ get_config(d, TRUE, readAll) /\ UNCHANGED call
        \/ \E data \in AllConfigPatches :
               update_config(d, data, TRUE, readAll) /\ UNCHANGED call
        \/ list_records(d, TRUE, readAll) /\ UNCHANGED call
        \/ \E data \in AllRecordPayloads, generated \in RecordIds :
               create_record(d, data, generated, TRUE, readAll) /\ UNCHANGED call
        \/ \E rid \in RecordIds : get_record(d, rid, TRUE, readAll) /\ UNCHANGED call
        \/ \E rid \in RecordIds, data \in AllPatches :
               update_record(d, rid, data, TRUE, readAll) /\ UNCHANGED call
        \/ \E rid \in RecordIds : delete_record(d, rid, TRUE, readAll) /\ UNCHANGED call
        \/ list_files(d, TRUE, readAll) /\ UNCHANGED call
        \/ \E data \in AllFilePayloads : create_file(d, data, TRUE, readAll) /\ UNCHANGED call
        \/ \E uuid \in Uuids(d) : get_file(d, uuid, TRUE, readAll) /\ UNCHANGED call
        \/ \E uuid \in Uuids(d), data \in AllPatches :
               update_file(d, uuid, data, TRUE, readAll) /\ UNCHANGED call
        \/ \E uuid \in Uuids(d) : delete_file(d, uuid, TRUE, readAll) /\ UNCHANGED call

SpecAll == Init /\ [][NextAll]_vars

----------------------------------------------------------------------------
(* Claims about update_record                                              *)

\* The step answered an update_record request for a record that had rows, by
\* a permitted caller with a body validate_input_data lets through.
UpdatedRecord ==
    /\ resp'.op = "update_record"
    /\ RecordRows(meta[resp'.db], resp'.id) # {}
    /\ validate_input_data(resp'.data) = "None"
    /\ resp'.exc # "PermissionError"

\* The keys of a patch that add to or change a row of a group of rows.
ChangedKeys(group, patch) ==
    {k \in DOMAIN patch :
        \E x \in group : k \notin DOMAIN x \/ x[k] # patch[k]}

\* The key is the name of a column of cfg whose aggregation is not "first".
NotFirstColumn(cfg, k) ==
    \E i \in 1..Len(cfg.columns) :
        /\ cfg.columns[i].name = k
        /\ cfg.columns[i].aggregation # "first"

\* C1: an update_record whose patch holds a record_id other than the
\* record's fails with InvalidData (400) and changes no row, in every state.
C1_RecordIdPatchRefused ==
    [][ ( /\ UpdatedRecord
          /\ "record_id" \in DOMAIN resp'.data
          /\ resp'.data.record_id # resp'.id )
        => ( /\ resp'.exc = "InvalidData"
             /\ resp'.status = 400
             /\ meta' = meta ) ]_vars

\* C2, as stated: an update_record whose patch adds or changes a column of
\* the config whose aggregation is not "first" fails with InvalidData (400)
\* and changes no row; a patch whose added or changed keys are all no columns
\* or columns aggregated with "first" is accepted.
C2_OnlyNotFirstRefused ==
    [][ UpdatedRecord =>
        LET cfg == config[resp'.db]
            keys == ChangedKeys(RecordRows(meta[resp'.db], resp'.id),
                                resp'.data)
        IN  IF \E k \in keys : NotFirstColumn(cfg, k)
            THEN /\ resp'.exc = "InvalidData"
                 /\ resp'.status = 400
                 /\ meta' = meta
            ELSE resp'.exc # "InvalidData" ]_vars

\* C2, amended: the patch is refused with InvalidData (400), no row changed,
\* exactly when one of the keys it adds or changes is an index column or a
\* column whose aggregation is not "first"; any other patch is accepted.
C2_IndexOrNotFirstRefused ==
    [][ UpdatedRecord =>
        LET cfg == config[resp'.db]
            keys == ChangedKeys(RecordRows(meta[resp'.db], resp'.id),
                                resp'.data)
        IN  IF \E k \in keys : \/ NotFirstColumn(cfg, k)
                               \/ k \in Range(cfg.index_columns)
            THEN /\ resp'.exc = "InvalidData"
                 /\ resp'.status = 400
                 /\ meta' = meta
            ELSE resp'.exc # "InvalidData" ]_vars

\* A patch of path was refused while path was a column not aggregated with
\* "first" and no index column, for a record whose rows it would change.
C2_Witness ==
    /\ resp.op = "update_record"
    /\ resp.exc = "InvalidData"
    /\ "path" \in DOMAIN resp.data
    /\ "record_id" \notin DOMAIN resp.data
    /\ "path" \notin Range(config[resp.db].index_columns)
    /\ \E x \in RecordRows(meta[resp.db], resp.id) : x.path # resp.data.path

\* C3: after a successful update_record every row of the record holds the
\* patch's value, null included, for each key of the patch and its former
\* value for every other key, the rows of the other records are the same, and
\* get_record returns the patch's values.
C3_PatchAppliedToEveryRow ==
    [][ ( UpdatedRecord /\ resp'.status = 200 ) =>
        LET d == resp'.db
            patch == resp'.data
            old == RecordRows(meta[d], resp'.id)
            new == RecordRows(meta'[d], resp'.id)
            got == _get_record(meta'[d], resp'.id)
        IN  /\ new # {}
            /\ \A y \in new : \A k \in DOMAIN patch :
                   k \in DOMAIN y /\ y[k] = patch[k]
            /\ \A x \in old : \E y \in new :
                   /\ y["_uuid"] = x["_uuid"]
                   /\ DOMAIN y = DOMAIN x \cup DOMAIN patch
                   /\ \A k \in DOMAIN x \ DOMAIN patch : y[k] = x[k]
            /\ Cardinality(new) = Cardinality(old)
            /\ meta'[d] \ new = meta[d] \ old
            /\ got.exc = "None"
            /\ \A k \in DOMAIN patch : got.val[k] = patch[k]
            /\ \A k \in DOMAIN patch : resp'.docs[1][k] = patch[k] ]_vars

\* A patch that sets a key to null was applied to a record of two rows.
C3_Witness ==
    /\ resp.op = "update_record"
    /\ resp.status = 200
    /\ "description" \in DOMAIN resp.data
    /\ resp.data.description = Null
    /\ Cardinality(RecordRows(meta[resp.db], resp.id)) = 2
    /\ \A x \in RecordRows(meta[resp.db], resp.id) : x.description = Null

----------------------------------------------------------------------------
(* Claims about deletion                                                   *)

\* C4: an entity that was deleted, and of whose id none was created since,
\* is not found: a get and a further delete of it find no row (404).
C4_DeletedIsNotFound ==
    /\ gone.kind = "database" =>
           _get_database(databases, gone.db).exc = "ObjectDoesNotExist"
    /\ gone.kind = "record" =>
           _get_record(meta[gone.db], gone.rid).exc = "ObjectDoesNotExist"
    /\ gone.kind = "file" =>
           _get_file(meta[gone.db], gone.uuid).exc = "ObjectDoesNotExist"

\* The routes of the records and of the files of a database.
RecordAndFileOps ==
    {"list_records", "create_record", "get_record", "update_record",
     "delete_record", "list_files", "create_file", "get_file", "update_file",
     "delete_file"}

\* C5: a request to a route of the records or of the files of a database id
\* that has no Database row, by a permitted caller and with a body that has
\* the keys the route asks for and no key validate_input_data refuses, fails
\* with ObjectDoesNotExist (404) and changes nothing in the store.
C5_NoDatabaseNoRecords ==
    [][ ( /\ resp'.op \in RecordAndFileOps
          /\ DbRows(databases, resp'.db) = {}
          /\ resp'.exc # "PermissionError"
          /\ validate_input_data(resp'.data) = "None"
          /\ resp'.op = "create_file" => "path" \in DOMAIN resp'.data )
        => ( /\ resp'.exc = "ObjectDoesNotExist"
             /\ resp'.status = 404
             /\ UNCHANGED <<databases, meta, config>> ) ]_vars

\* C6: the config of a database is deleted with the database: a database that
\* has just been created, for the first time or again after its deletion, has
\* the default config.
C6_ConfigDeletedWithDatabase ==
    [][ ( resp'.op = "create_database" /\ resp'.status = 200 )
        => config'[resp'.db] = DefaultConfig ]_vars

----------------------------------------------------------------------------
(* Claims about update_config                                              *)

\* The step answered an update_config request for a database that has a row,
\* by a permitted caller with a body validate_input_data lets through.
UpdatedConfig ==
    /\ resp'.op = "update_config"
    /\ DbRows(databases, resp'.db) # {}
    /\ validate_input_data(resp'.data) = "None"
    /\ resp'.exc # "PermissionError"

\* The names the entries of a list of columns have.
NamesIn(columns) ==
    {columns[i].name : i \in {j \in 1..Len(columns) :
                                  "name" \in DOMAIN columns[j]}}

\* An entry of the list lacks name, dtype or aggregation.
LacksKey(columns) ==
    \E i \in 1..Len(columns) :
        ~({"name", "dtype", "aggregation"} \subseteq DOMAIN columns[i])

\* The request was refused with 400 and the config is as it was.
RefusedConfig == resp'.status = 400 /\ config' = config

\* C7: no step takes a name out of the columns of a config: an update_config
\* whose columns do not hold every name of the stored columns fails with 400,
\* and one whose columns hold them all, each entry with name, dtype and
\* aggregation, succeeds and stores its columns.
C7_ColumnNamesKept ==
    [][ /\ \A d \in DbIds :
              NamesIn(config[d].columns) \subseteq NamesIn(config'[d].columns)
        /\ ( UpdatedConfig /\ "columns" \in DOMAIN resp'.data ) =>
              LET old == config[resp'.db]
                  columns == resp'.data.columns
              IN  /\ ~(NamesIn(old.columns) \subseteq NamesIn(columns))
                         => RefusedConfig
                  /\ ( /\ NamesIn(old.columns) \subseteq NamesIn(columns)
                       /\ ~LacksKey(columns)
                       /\ "index_columns" \notin DOMAIN resp'.data )
                         => /\ resp'.status = 200
                            /\ config'[resp'.db].columns = columns ]_vars

\* C8: an update_config whose columns hold an entry without name, dtype or
\* aggregation fails with 400 and leaves the config as it was.
C8_MalformedColumnRefused ==
    [][ ( /\ UpdatedConfig
          /\ "columns" \in DOMAIN resp'.data
          /\ LacksKey(resp'.data.columns) )
        => RefusedConfig ]_vars

\* C9: the index_columns of a config are never empty: an update_config whose
\* index_columns are empty fails with 400 and leaves the config as it was.
C9_IndexColumnsNeverEmptied ==
    [][ /\ \A d \in DbIds : Len(config'[d].index_columns) > 0
        /\ ( /\ UpdatedConfig
             /\ "index_columns" \in DOMAIN resp'.data
             /\ Len(resp'.data.index_columns) = 0 )
           => RefusedConfig ]_vars

----------------------------------------------------------------------------
(* Claims about the responses                                              *)

\* C10: no document of a response has a key that starts with "_" or a key
\* columns_to_filter excludes for the caller.
C10_ResponsesFiltered ==
    \A i \in 1..Len(resp.docs) : \A k \in DOMAIN resp.docs[i] :
        k \notin UnderscoreKeys /\ k \notin resp.excluded

----------------------------------------------------------------------------
(* Claims about create_database                                            *)

\* C12: a create_database whose body has no database_id, or the database_id
\* of a database that exists, is answered 400 and leaves the stored
\* databases as they were.
C12_CreateDatabaseRefused ==
    [][ ( /\ resp'.op = "create_database"
          /\ validate_input_data(resp'.data) = "None"
          /\ \/ "database_id" \notin DOMAIN resp'.data
             \/ DbRows(databases, resp'.data.database_id) # {} )
        => resp'.status = 400 /\ databases' = databases ]_vars

----------------------------------------------------------------------------
(* The search keywords of api/utils.py                                     *)

\* A text is a sequence of atoms: an atom is one character, or a run of
\* letters that holds none of the characters the parser looks for ("time"
\* and "true" are words, "0" is a decimal digit).
MaxKeyword == 4
Digits == {"0"}
Atoms == {"time", "true", "0", ":", ">", "<", "=", "!", " ", "\\"}

RECURSIVE Texts(_)
Texts(n) ==
    IF n = 0 THEN {<< >>}
    ELSE Texts(n - 1) \cup
         {Append(t, a) : t \in {u \in Texts(n - 1) : Len(u) = n - 1}, a \in Atoms}

\* The string a text stands for.
RECURSIVE Str(_)
Str(t) == IF t = << >> THEN "" ELSE Head(t) \o Str(Tail(t))

\* sep in t
Contains(t, sep) ==
    \E i \in 1..(Len(t) - Len(sep) + 1) : SubSeq(t, i, i + Len(sep) - 1) = sep

\* t.split(sep): the pieces between the occurrences of sep, found from the
\* left and not overlapping.
RECURSIVE Split(_, _)
Split(t, sep) ==
    IF ~Contains(t, sep) THEN <<t>>
    ELSE LET i == CHOOSE j \in 1..(Len(t) - Len(sep) + 1) :
                      /\ SubSeq(t, j, j + Len(sep) - 1) = sep
                      /\ \A k \in 1..(j - 1) : SubSeq(t, k, k + Len(sep) - 1) # sep
         IN  <<SubSeq(t, 1, i - 1)>> \o Split(SubSeq(t, i + Len(sep), Len(t)), sep)

\* ''.join(pieces)
RECURSIVE Join(_)
Join(pieces) == IF pieces = << >> THEN << >> ELSE Head(pieces) \o Join(Tail(pieces))

\* t.replace('\\', '')
RECURSIVE Unescaped(_)
Unescaped(t) ==
    IF t = << >> THEN << >>
    ELSE IF Head(t) = "\\" THEN Unescaped(Tail(t))
    ELSE <<Head(t)>> \o Unescaped(Tail(t))

\* t.isdecimal()
isdecimal(t) == t # << >> /\ \A i \in 1..Len(t) : t[i] \in Digits

Quoted(t) == <<"'">> \o t \o <<"'">>

\* replace_expression is << >> where the code passes none.
_parse_search_keyword(keyword, expression, replace_expression) ==
    LET pieces == Split(keyword, expression)
        key == Quoted(pieces[1])
        unescaped == Unescaped(Join(Tail(pieces)))
        value == IF ~isdecimal(unescaped) THEN Quoted(unescaped) ELSE unescaped
    IN  IF key = << >> \/ unescaped = << >> THEN << >>
        ELSE IF replace_expression = <<"regex">>
        THEN key \o <<" == regex(">> \o value \o <<")">>
        ELSE IF replace_expression # << >>
        THEN key \o <<" ">> \o replace_expression \o <<" ">> \o value
        ELSE key \o <<" ">> \o expression \o <<" ">> \o value

\* ' or '.join(filters)
RECURSIVE JoinOr(_)
JoinOr(filters) ==
    IF filters = << >> THEN << >>
    ELSE IF Len(filters) = 1 THEN filters[1]
    ELSE filters[1] \o <<" or ">> \o JoinOr(Tail(filters))

\* A parser that looks for "=" before the operators of two characters.
ParseWord_equals_first(key, columns) ==
    IF Contains(key, <<":">>)
    THEN _parse_search_keyword(key, <<":">>, <<"regex">>)
    ELSE IF Contains(key, <<"=">>)
    THEN _parse_search_keyword(key, <<"=">>, << >>)
    ELSE IF Contains(key, <<">">>)
    THEN _parse_search_keyword(key, <<">">>, << >>)
    ELSE IF Contains(key, <<"<">>)
    THEN _parse_search_keyword(key, <<"<">>, << >>)
    ELSE << >>

\* The clause of one word of the keyword, for the default search columns.
ParseWord(key, columns) ==
    IF Contains(key, <<":">>)
    THEN _parse_search_keyword(key, <<":">>, <<"regex">>)
    ELSE IF Contains(key, <<">", "=">>)
    THEN _parse_search_keyword(key, <<">", "=">>, << >>)
    ELSE IF Contains(key, <<"<", "=">>)
    THEN _parse_search_keyword(key, <<"<", "=">>, << >>)
    ELSE IF Contains(key, <<"!", "=">>)
    THEN _parse_search_keyword(key, <<"!", "=">>, << >>)
    ELSE IF Contains(key, <<"=">>)
    THEN _parse_search_keyword(key, <<"=">>, << >>)
    ELSE IF Contains(key, <<">">>)
    THEN _parse_search_keyword(key, <<">">>, << >>)
    ELSE IF Contains(key, <<"<">>)
    THEN _parse_search_keyword(key, <<"<">>, << >>)
    ELSE <<"(">> \o
         JoinOr([i \in 1..Len(columns) |->
                   _parse_search_keyword(
                       <<columns[i], ":", ".*">> \o key \o <<".*">>,
                       <<":">>, <<"regex">>)])
         \o <<")">>

\* The clauses of the words of the keyword, joined by ' and '.
RECURSIVE ParseWords(_, _)
ParseWords(words, columns) ==
    IF Len(words) = 1 THEN ParseWord(words[1], columns)
    ELSE ParseWords(SubSeq(words, 1, Len(words) - 1), columns)
         \o <<" and ">> \o ParseWord(words[Len(words)], columns)

\* The query of a keyword that is not None, as a string.
parse_search_keyword(search_keyword, columns) ==
    Str(ParseWords(Split(search_keyword, <<" ">>), columns))

\* SpecParse: parse_search_keyword applied to every keyword of at most
\* MaxKeyword atoms, with the default search columns.
Keywords == Texts(MaxKeyword)
DefaultSearchColumns == <<"tags">>

\* The keyword a request carries, before the parser is applied to it.
Keyword(keyword) == [fn |-> "keyword", keyword |-> keyword]

InitParse ==
    /\ databases = {}
    /\ meta = [d \in DbIds |-> {}]
    /\ config = [d \in DbIds |-> DefaultConfig]
    /\ resp = Response("none", NoId, NoId, EmptyDoc, EmptyDoc, "None",
                       [PermissionError |-> 403], << >>, {})
    /\ gone = NoGone
    /\ call \in {Keyword(keyword) : keyword \in Keywords}

Parsed ==
    /\ call.fn = "keyword"
    /\ call' = [fn |-> "parse_search_keyword", keyword |-> call.keyword,
                atoms |-> ParseWords(Split(call.keyword, <<" ">>),
                                     DefaultSearchColumns),
                query |-> parse_search_keyword(call.keyword, DefaultSearchColumns)]
    /\ UNCHANGED <<databases, meta, config, resp, gone>>

NextParse == Parsed

SpecParse == InitParse /\ [][NextParse]_vars

\* The query of the last call is that of the keyword of the atoms t.
ParsedAs(t, query) ==
    /\ call.fn = "parse_search_keyword"
    /\ call.keyword = t
    /\ call.query = query

----------------------------------------------------------------------------
(* Claims about parse_search_keyword                                       *)

\* The operators of two characters, in the order the parser looks for them.
TwoCharOperators == << <<">", "=">>, <<"<", "=">>, <<"!", "=">> >>

\* The last call parsed a keyword of one word that holds no ":" and holds
\* the operator op, and none of the operators the parser looks for before op.
OneWordWith(op, before) ==
    /\ call.fn = "parse_search_keyword"
    /\ ~Contains(call.keyword, <<" ">>)
    /\ ~Contains(call.keyword, <<":">>)
    /\ Contains(call.keyword, op)
    /\ \A b \in before : ~Contains(call.keyword, b)

\* The atoms start with the quoted text before the first op of the keyword,
\* then op between two spaces, and a value follows.
RendersClause(keyword, atoms, op) ==
    LET start == Quoted(Split(keyword, op)[1]) \o <<" ">> \o op \o <<" ">>
    IN  /\ Len(atoms) > Len(start)
        /\ SubSeq(atoms, 1, Len(start)) = start

\* Nothing but op and backslashes follows the first op of the keyword.
NothingFollows(keyword, op) == Unescaped(Join(Tail(Split(keyword, op)))) = << >>

\* C18 as stated: a word that holds an operator of two characters and no ":"
\* renders a clause with that operator (the first of ">=", "<=", "!=" it
\* holds), never one with an operator of one character.
C18_TwoCharOperatorRendered ==
    \A i \in 1..Len(TwoCharOperators) :
        OneWordWith(TwoCharOperators[i],
                    {TwoCharOperators[j] : j \in 1..(i - 1)})
        => RendersClause(call.keyword, call.atoms, TwoCharOperators[i])

\* C18 as the code has it: such a word renders a clause with the first of
\* ">=", "<=", "!=" it holds, never one with an operator of one character,
\* unless nothing but that operator and backslashes follows its first
\* occurrence: then the word renders no clause at all.
C18_TwoCharOperatorRenderedOrNothing ==
    \A i \in 1..Len(TwoCharOperators) :
        OneWordWith(TwoCharOperators[i],
                    {TwoCharOperators[j] : j \in 1..(i - 1)})
        => IF NothingFollows(call.keyword, TwoCharOperators[i])
           THEN call.query = ""
           ELSE RendersClause(call.keyword, call.atoms, TwoCharOperators[i])

C18_Witness == ParsedAs(<<"time", ">", "=", "0">>, "'time' >= 0")

\* C19: a word key=value, with "=" and none of ":", ">=", "<=", "!=",
\* renders 'key' == value.
C19_EqualsRendersDoubleEquals ==
    ( /\ OneWordWith(<<"=">>, {TwoCharOperators[j] : j \in 1..3})
      /\ ~NothingFollows(call.keyword, <<"=">>) )
    => RendersClause(call.keyword, call.atoms, <<"=", "=">>)

\* C20: a word key:true or key:false renders an equality against the
\* boolean literal True or False, and no regex match.
C20_BooleanLiteral ==
    ParsedAs(<<"time", ":", "true">>, call.query) => call.query = "'time' == True"

----------------------------------------------------------------------------
(* The permission gate of api/utils.py                                     *)

\* What the outbound call of is_permitted meets: requests.post raises (no
\* connection), raise_for_status raises (an error status), json.loads raises
\* (a body that is no JSON), or the body is the JSON true or false.
GateFailures == {"ConnectionError", "HTTPError", "JSONDecodeError"}
GateOutcomes == GateFailures \cup {"true", "false"}

\* A gate that lets the caller through when its call fails.
is_permitted_open(outcome) == outcome # "false"

\* CheckPermissionClient.is_permitted: every exception of the call is
\* caught and answered False.
is_permitted(outcome) ==
    IF outcome \in GateFailures THEN FALSE ELSE outcome = "true"

\* The call columns_to_filter makes for 'metadata:read' during a request.
GateCall(outcome) ==
    call' = [fn |-> "is_permitted", outcome |-> outcome,
             permitted |-> is_permitted(outcome)]

\* SpecGate: a store with a secret column, and the routes that ask
\* columns_to_filter, whose call to the gate meets every outcome.
GateRecords == { [record_id |-> "r1", path |-> "p1", description |-> "v1"] }
GatePatches == { [description |-> "v2"] }
GateRoutes ==
    {"list_records", "get_record", "update_record", "list_files", "get_file"}

NextGate ==
    \E d \in DbIds :
        \/ create_database([database_id |-> d], TRUE, TRUE) /\ UNCHANGED call
        \/ delete_database(d, TRUE, TRUE) /\ UNCHANGED call
        \/ \E data \in AllConfigPatches :
               update_config(d, data, TRUE, TRUE) /\ UNCHANGED call
        \/ \E data \in GateRecords :
               create_record(d, data, "r1", TRUE, TRUE) /\ UNCHANGED call
        \/ \E outcome \in GateOutcomes, permitted \in Permits :
               list_records(d, permitted, is_permitted(outcome))
               /\ GateCall(outcome)
        \/ \E outcome \in GateOutcomes, permitted \in Permits, rid \in RecordIds :
               get_record(d, rid, permitted, is_permitted(outcome))
               /\ GateCall(outcome)
        \/ \E outcome \in GateOutcomes, permitted \in Permits,
              rid \in RecordIds, data \in GatePatches :
               update_record(d, rid, data, permitted, is_permitted(outcome))
               /\ GateCall(outcome)
        \/ \E outcome \in GateOutcomes, permitted \in Permits :
               list_files(d, permitted, is_permitted(outcome))
               /\ GateCall(outcome)
        \/ \E outcome \in GateOutcomes, permitted \in Permits, uuid \in Uuids(d) :
               get_file(d, uuid, permitted, is_permitted(outcome))
               /\ GateCall(outcome)

SpecGate == Init /\ [][NextGate]_vars

\* C15: when the call of the gate fails, is_permitted answers False, the
\* caller is treated as one that may not read the secret columns
\* (columns_to_filter answers the secret columns, and no document of the
\* response holds one), and the request is not answered with a 5xx.
C15_GateFailsClosed ==
    ( /\ call.fn = "is_permitted"
      /\ call.outcome \in GateFailures
      /\ resp.op \in GateRoutes )
    => /\ call.permitted = FALSE
       /\ resp.excluded = get_secret_columns(config[resp.db])
       /\ \A i \in 1..Len(resp.docs) :
              DOMAIN resp.docs[i] \cap get_secret_columns(config[resp.db]) = {}
       /\ resp.status < 500

\* The gate could not be reached while a record with a secret value was
\* read, and the record was answered.
C15_Witness ==
    /\ call.fn = "is_permitted"
    /\ call.outcome = "ConnectionError"
    /\ resp.op = "get_record"
    /\ resp.status = 200
    /\ "description" \in get_secret_columns(config[resp.db])
    /\ \E x \in meta[resp.db] : "description" \in DOMAIN x

----------------------------------------------------------------------------
(* The validation of the body of a write request                           *)

\* The repository calls a write route makes before validate_input_data:
\* create_record and update_record ask columns_to_filter first, which loads
\* the config of the database (get_secret_columns) for a caller the gate
\* does not permit 'metadata:read'; the other write routes validate first.
WriteRoutes ==
    {"create_database", "update_database", "update_config",
     "create_record", "update_record", "create_file", "update_file"}

CallsBeforeValidation(op, readAll) ==
    IF op \in {"create_record", "update_record"} /\ ~readAll
    THEN <<"config">>
    ELSE << >>

\* The repository calls of the request, up to validate_input_data.
Validated(op, readAll) ==
    call' = [fn |-> "validate_input_data", op |-> op,
             reads |-> CallsBeforeValidation(op, readAll)]

\* SpecValidate: the write routes, with bodies validate_input_data refuses
\* and bodies it lets through, by callers the gate does and does not permit.
RefusedKeys == {"_private", ".hidden", "a b"}
RefusedBodies == {[k \in {key} |-> "v1"] : key \in RefusedKeys}
ValidateDatabases(d) ==
    {[database_id |-> d]}
    \cup {[k \in {"database_id", key} |-> IF k = "database_id" THEN d ELSE "v1"] :
            key \in RefusedKeys}
ValidateRecords ==
    {[record_id |-> "r1", path |-> "p1"]} \cup RefusedBodies
ValidatePatches == {[description |-> "v2"]} \cup RefusedBodies

NextValidate ==
    \E d \in DbIds, permitted \in Permits, readAll \in BOOLEAN :
        \/ \E data \in ValidateDatabases(d) :
               create_database(data, permitted, readAll)
               /\ Validated("create_database", readAll)
        \/ \E data \in ValidatePatches :
               update_database(d, data, permitted, readAll)
               /\ Validated("update_database", readAll)
        \/ \E data \in ValidatePatches :
               update_config(d, data, permitted, readAll)
               /\ Validated("update_config", readAll)
        \/ \E data \in ValidateRecords :
               create_record(d, data, "r1", permitted, readAll)
               /\ Validated("create_record", readAll)
        \/ \E rid \in RecordIds, data \in ValidatePatches :
               update_record(d, rid, data, permitted, readAll)
               /\ Validated("update_record", readAll)
        \/ \E data \in ValidateRecords :
               create_file(d, data, permitted, readAll)
               /\ Validated("create_file", readAll)
        \/ \E uuid \in Uuids(d), data \in ValidatePatches :
               update_file(d, uuid, data, permitted, readAll)
               /\ Validated("update_file", readAll)

SpecValidate == Init /\ [][NextValidate]_vars

\* C11: a write request whose body has a key that starts with "_" or with
\* ".", or that its sanitization changes, is answered 400 (InvalidData),
\* and no call to the repository, read or write, is made before it is
\* refused.
C11_InvalidBodyRefusedFirst ==
    [][ ( /\ resp'.op \in WriteRoutes
          /\ validate_input_data(resp'.data) # "None" )
        => /\ resp'.status = 400
           /\ resp'.exc = "InvalidData"
           /\ call'.reads = << >>
           /\ UNCHANGED <<databases, meta, config>> ]_vars

----------------------------------------------------------------------------
(* A store with more rows than one of a database id                        *)

\* SpecIntegrity: the 'database' handler is a table of the backend that other
\* writers share; _get_database counts the rows its query finds and raises
\* InvalidObject for more than one. The store starts with none, one or two
\* rows of each database id.
IntegrityRows ==
    {[database_id |-> d, _uuid |-> u] : d \in DbIds, u \in {"u1", "u2"}}

InitIntegrity ==
    /\ databases \in SUBSET IntegrityRows
    /\ meta = [d \in DbIds |-> {}]
    /\ config = [d \in DbIds |-> DefaultConfig]
    /\ resp = Response("none", NoId, NoId, EmptyDoc, EmptyDoc, "None",
                       [PermissionError |-> 403], << >>, {})
    /\ gone = NoGone
    /\ call = NoCall

IntegrityPatches == { [description |-> "v2"] }

NextIntegrity ==
    \E d \in DbIds, readAll \in BOOLEAN :
        \/ create_database([database_id |-> d], TRUE, readAll) /\ UNCHANGED call
        \/ get_database(d, TRUE, readAll) /\ UNCHANGED call
        \/ \E data \in DatabasePatches :
               update_database(d, data, TRUE, readAll) /\ UNCHANGED call
        \/ delete_database(d, TRUE, readAll) /\ UNCHANGED call
        \/ get_config(d, TRUE, readAll) /\ UNCHANGED call
        \/ \E data \in AllConfigPatches :
               update_config(d, data, TRUE, readAll) /\ UNCHANGED call
        \/ list_records(d, TRUE, readAll) /\ UNCHANGED call
        \/ \E data \in GateRecords :
               create_record(d, data, "r1", TRUE, readAll) /\ UNCHANGED call
        \/ \E rid \in RecordIds : get_record(d, rid, TRUE, readAll) /\ UNCHANGED call
        \/ \E rid \in RecordIds, data \in IntegrityPatches :
               update_record(d, rid, data, TRUE, readAll) /\ UNCHANGED call
        \/ \E rid \in RecordIds : delete_record(d, rid, TRUE, readAll) /\ UNCHANGED call
        \/ list_files(d, TRUE, readAll) /\ UNCHANGED call
        \/ \E data \in GateRecords : create_file(d, data, TRUE, readAll) /\ UNCHANGED call
        \/ \E uuid \in Uuids(d) : get_file(d, uuid, TRUE, readAll) /\ UNCHANGED call
        \/ \E uuid \in Uuids(d), data \in IntegrityPatches :
               update_file(d, uuid, data, TRUE, readAll) /\ UNCHANGED call
        \/ \E uuid \in Uuids(d) : delete_file(d, uuid, TRUE, readAll) /\ UNCHANGED call

SpecIntegrity == InitIntegrity /\ [][NextIntegrity]_vars

\* C16: a request that ends with InvalidObject (more rows than the one the
\* route expects) is answered 500, on every route, and never 4xx.
C16_InvalidObjectIs500 ==
    resp.exc = "InvalidObject" => resp.status = 500

----------------------------------------------------------------------------
(* The pages of the list routes                                            *)

MaxPage == 3
MaxPerPage == 2
Pages == 1..MaxPage
PerPages == 1..MaxPerPage

\* search=None, and the words a request searches for: the default search
\* key of a list is the id of its items (database_id, record_id, path), and
\* a word finds the items whose id it is.
NoSearch == "-"

\* What the read of the backend raises for the query of a keyword: nothing,
\* re.error for a pattern that does not compile ('(', ')', '+'), SyntaxError
\* for a query the handler cannot parse.
ReadFaults == {"None", "REError", "SyntaxError"}

\* begin with the page in the place of the pages before it.
Begin_from_page(page, per_page) == per_page * page

\* begin = per_page * (page - 1)
Begin(page, per_page) == per_page * (page - 1)

\* items[begin:begin + per_page]
Slice(items, begin, per_page) ==
    SubSeq(items, begin + 1,
           IF begin + per_page < Len(items) THEN begin + per_page ELSE Len(items))

\* math.ceil(total / per_page)
Ceil(total, per_page) == (total + per_page - 1) \div per_page

\* The rows a read finds: every row for no keyword, the rows whose search
\* key holds the word for a keyword.
Matching(rows, key, search) ==
    IF search = NoSearch THEN rows
    ELSE {x \in rows : key \in DOMAIN x /\ x[key] = search}

\* A filter that lets every database through.
FilterPermitted_all(all_data, permitted_ids) == all_data

\* filter_permitted_databases and the list built from its indices: the
\* items of all_data whose database_id the gate permits, in their order.
FilterPermitted(all_data, permitted_ids) ==
    SelectSeq(all_data, LAMBDA x : x.database_id \in permitted_ids)

\* The dict a list helper returns, without the fields that repeat the
\* request.
Listed(data, total, per_page) ==
    [exc |-> "None", val |-> data, total |-> total,
     number_of_pages |-> Ceil(total, per_page), length |-> Len(data)]

NotListed(exc) ==
    [exc |-> exc, val |-> << >>, total |-> 0, number_of_pages |-> 0,
     length |-> 0]

_list_databases(dbs, per_page, page, search, fault, permitted_ids) ==
    IF fault # "None" THEN NotListed(fault)
    ELSE LET all_data == SeqOf(Matching(dbs, "database_id", search))
             permitted_database_objects == FilterPermitted(all_data, permitted_ids)
         IN  Listed(Slice(permitted_database_objects, Begin(page, per_page), per_page),
                    Len(permitted_database_objects), per_page)

\* handler.read(pql, limit=per_page, offset=begin, group_by='record_id'):
\* data holds the page of the groups the query finds, count_total their
\* number.
_list_records_page(dbs, rows, cfg, d, per_page, page, search, fault) ==
    LET got == _get_database(dbs, d)
        found == SeqOf({GroupedDoc(RecordRows(rows, rid)) :
                          rid \in RecordIdsOf(Matching(rows, "record_id", search))})
    IN  IF got.exc # "None" THEN NotListed(got.exc)
        ELSE IF validate_sort_key("record_id", cfg) # "None"
        THEN NotListed("InvalidSortKey")
        ELSE IF fault # "None" THEN NotListed(fault)
        ELSE Listed(Slice(found, Begin(page, per_page), per_page),
                    Len(found), per_page)

\* handler.read(pql, limit=per_page, offset=begin) with the query
\* 'record_id == <record_id>' (every record for record_id=None) and the
\* query of the keyword.
_list_files_page(dbs, rows, cfg, d, rid, per_page, page, search, fault) ==
    LET got == _get_database(dbs, d)
        found == SeqOf(Matching(IF rid = NoId THEN rows
                                ELSE {x \in rows : "record_id" \in DOMAIN x
                                                   /\ x.record_id = rid},
                                "path", search))
    IN  IF got.exc # "None" THEN NotListed(got.exc)
        ELSE IF validate_sort_key("path", cfg) # "None"
        THEN NotListed("InvalidSortKey")
        ELSE IF fault # "None" THEN NotListed(fault)
        ELSE Listed(Slice(found, Begin(page, per_page), per_page),
                    Len(found), per_page)

\* list_databases answers nothing (200, a null body) for a SyntaxError.
CaughtListDatabases ==
    [PermissionError |-> 403, AssertionError |-> 400, InvalidSortKey |-> 400,
     REError |-> 400, SyntaxError |-> 200]

\* The request of a list and the fields of its answer.
ListCall(op, per_page, page, search, fault, permitted_ids, r) ==
    call' = [fn |-> op, per_page |-> per_page, page |-> page,
             search |-> search, fault |-> fault, permitted |-> permitted_ids,
             total |-> r.total, number_of_pages |-> r.number_of_pages,
             length |-> r.length]

list_databases(per_page, page, search, fault, permitted_ids) ==
    LET r == _list_databases(databases, per_page, page, search, fault,
                             permitted_ids)
    IN  /\ resp' = Response("list_databases", NoId, NoId, EmptyDoc, EmptyDoc,
                            r.exc, CaughtListDatabases, FilterAll(r.val, {}), {})
        /\ ListCall("list_databases", per_page, page, search, fault,
                    permitted_ids, r)
        /\ UNCHANGED <<databases, meta, config, gone>>

list_records_page(d, per_page, page, search, fault, permitted, readAll) ==
    LET r == IF ~permitted THEN NotListed("PermissionError")
             ELSE _list_records_page(databases, meta[d], config[d], d,
                                     per_page, page, search, fault)
    IN  /\ resp' = Response("list_records", d, NoId, EmptyDoc, EmptyDoc, r.exc,
                            CaughtListRecords,
                            FilterAll(r.val, Excluded(d, readAll)),
                            Excluded(d, readAll))
        /\ ListCall("list_records", per_page, page, search, fault, {d}, r)
        /\ UNCHANGED <<databases, meta, config, gone>>

list_files_page(d, rid, per_page, page, search, fault, permitted, readAll) ==
    LET r == IF ~permitted THEN NotListed("PermissionError")
             ELSE _list_files_page(databases, meta[d], config[d], d, rid,
                                   per_page, page, search, fault)
    IN  /\ resp' = Response("list_files", d, rid, EmptyDoc, EmptyDoc, r.exc,
                            CaughtListFiles,
                            FilterAll(ExposeAll(r.val), Excluded(d, readAll)),
                            Excluded(d, readAll))
        /\ ListCall("list_files", per_page, page, search, fault, {d}, r)
        /\ UNCHANGED <<databases, meta, config, gone>>

\* SpecList: databases and records are created, and the list routes are
\* asked for every page of every size, with and without a keyword, by
\* callers the gate permits some of the databases.
ListDbIds == {"d1", "d2", "d3"}
ListPermitted == { {}, {"d1", "d3"}, ListDbIds }
ListRecords ==
    { [record_id |-> "r1", path |-> "p1"], [record_id |-> "r2", path |-> "p2"] }
ListSearches(words) ==
    {<<NoSearch, "None">>} \cup {<<w, fault>> : w \in words, fault \in ReadFaults}

NextList ==
    \/ \E d \in ListDbIds :
           create_database([database_id |-> d], TRUE, TRUE) /\ UNCHANGED call
    \/ \E d \in DbIds, data \in ListRecords :
           create_record(d, data, "r1", TRUE, TRUE) /\ UNCHANGED call
    \/ \E per_page \in PerPages, page \in Pages, s \in ListSearches({"d1"}),
          permitted_ids \in ListPermitted :
           list_databases(per_page, page, s[1], s[2], permitted_ids)
    \/ \E d \in DbIds, per_page \in PerPages, page \in Pages,
          s \in ListSearches({"r1"}), permitted \in Permits :
           list_records_page(d, per_page, page, s[1], s[2], permitted, TRUE)
    \/ \E d \in DbIds, rid \in {NoId, "r1"}, per_page \in PerPages,
          page \in Pages, s \in ListSearches({"p1"}) :
           list_files_page(d, rid, per_page, page, s[1], s[2], TRUE, TRUE)

SpecList == Init /\ [][NextList]_vars

----------------------------------------------------------------------------
(* Claims about the list routes                                            *)

\* The last request was a list that was answered with a page.
Paged(ops) == resp.op \in ops /\ resp.exc = "None" /\ call.fn = resp.op

\* The items the list of the last request finds in the store, whatever the
\* page: the databases the keyword finds and the gate permits, the records
\* or the files of the database the keyword finds.
Found ==
    CASE resp.op = "list_databases" ->
           {x \in Matching(databases, "database_id", call.search) :
               x.database_id \in call.permitted}
      [] resp.op = "list_records" ->
           RecordIdsOf(Matching(meta[resp.db], "record_id", call.search))
      [] resp.op = "list_files" ->
           Matching(IF resp.id = NoId THEN meta[resp.db]
                    ELSE {x \in meta[resp.db] : "record_id" \in DOMAIN x
                                                /\ x.record_id = resp.id},
                    "path", call.search)

\* C13: list_databases answers no database the gate does not permit; the
\* page is cut from the permitted databases (it holds per_page of them
\* while that many are left), and total is the number of the databases the
\* query finds that the gate permits.
C13_OnlyPermittedDatabasesListed ==
    Paged({"list_databases"}) =>
        LET left == Cardinality(Found) - call.per_page * (call.page - 1) IN
        /\ \A i \in 1..Len(resp.docs) :
               resp.docs[i].database_id \in call.permitted
        /\ call.total = Cardinality(Found)
        /\ Len(resp.docs) = IF left <= 0 THEN 0
                            ELSE IF left < call.per_page THEN left
                            ELSE call.per_page

\* A page of two was answered from a store that holds a database the gate
\* does not permit the caller.
C13_Witness ==
    /\ Paged({"list_databases"})
    /\ Len(resp.docs) = 2
    /\ \E x \in databases : x.database_id \notin call.permitted

\* The page p of the list of the last request, from the store as it is.
PageOf(p) ==
    CASE resp.op = "list_databases" ->
           _list_databases(databases, call.per_page, p, call.search,
                           call.fault, call.permitted).val
      [] resp.op = "list_records" ->
           _list_records_page(databases, meta[resp.db], config[resp.db],
                              resp.db, call.per_page, p, call.search,
                              call.fault).val
      [] resp.op = "list_files" ->
           _list_files_page(databases, meta[resp.db], config[resp.db],
                            resp.db, resp.id, call.per_page, p, call.search,
                            call.fault).val

RECURSIVE PagesUpTo(_)
PagesUpTo(n) == IF n = 0 THEN << >> ELSE PagesUpTo(n - 1) \o PageOf(n)

\* C14: for every list and per_page > 0, over a store that does not change:
\* total is the number of the items the list finds without pages,
\* number_of_pages is ceil(total / per_page), length is the number of the
\* items of data, the pages 1..number_of_pages hold no item twice and
\* total items together, and every later page is empty.
C14_PagesTileTheList ==
    Paged({"list_databases", "list_records", "list_files"}) =>
        LET n == call.number_of_pages
            every == PagesUpTo(n)
        IN  /\ call.total = Cardinality(Found)
            /\ n * call.per_page >= call.total
            /\ n > 0 => (n - 1) * call.per_page < call.total
            /\ call.length = Len(resp.docs)
            /\ Len(every) = call.total
            /\ \A i, j \in 1..Len(every) : i # j => every[i] # every[j]
            /\ \A p \in (n + 1)..(MaxPage + 1) : PageOf(p) = << >>

\* The second page of a list of two pages was answered, and held an item.
C14_Witness ==
    /\ Paged({"list_databases", "list_records", "list_files"})
    /\ call.page = 2
    /\ call.number_of_pages >= 2
    /\ call.length >= 1

\* C17: a keyword whose query the read refuses as a malformed pattern is
\* answered 400 by list_databases, list_records and list_files; a
\* SyntaxError of the read crashes none of them and has the same answer on
\* the three.
C17_MalformedSearchRefused ==
    /\ resp.exc = "REError" => resp.status = 400
    /\ resp.exc = "SyntaxError" =>
          /\ resp.status < 500
          /\ resp.status = StatusOf("SyntaxError", CaughtListDatabases)

----------------------------------------------------------------------------
(* The keyword a request may leave out                                     *)

\* parse_search_keyword with its first branch: None for the keyword None
\* (none is TRUE), the query of the keyword otherwise.
parse_search_keyword_optional(none, search_keyword, columns) ==
    IF none THEN Null ELSE parse_search_keyword(search_keyword, columns)

\* SpecKeyword: the parser applied to no keyword and to every keyword of at
\* most MaxKeyword atoms, for no, one and two search columns.
SearchColumnLists == { << >>, <<"tags">>, <<"record_id", "path">> }

SearchKeyword(none, keyword, columns) ==
    [fn |-> "search", none |-> none, keyword |-> keyword, columns |-> columns]

InitKeyword ==
    /\ databases = {}
    /\ meta = [d \in DbIds |-> {}]
    /\ config = [d \in DbIds |-> DefaultConfig]
    /\ resp = Response("none", NoId, NoId, EmptyDoc, EmptyDoc, "None",
                       [PermissionError |-> 403], << >>, {})
    /\ gone = NoGone
    /\ call \in {SearchKeyword(FALSE, keyword, columns) :
                    keyword \in Keywords, columns \in SearchColumnLists}
                \cup {SearchKeyword(TRUE, << >>, columns) :
                        columns \in SearchColumnLists}

ParsedOptional ==
    /\ call.fn = "search"
    /\ call' = [fn |-> "parse_search_keyword_optional", none |-> call.none,
                keyword |-> call.keyword, columns |-> call.columns,
                query |-> parse_search_keyword_optional(call.none, call.keyword,
                                                        call.columns)]
    /\ UNCHANGED <<databases, meta, config, resp, gone>>

NextKeyword == ParsedOptional

SpecKeyword == InitKeyword /\ [][NextKeyword]_vars

\* C21: parse_search_keyword returns None for the keyword None and for the
\* empty keyword, whatever the search columns.
C21_NoKeywordNoQuery ==
    ( /\ call.fn = "parse_search_keyword_optional"
      /\ call.none \/ call.keyword = << >> )
    => call.query = Null

----------------------------------------------------------------------------
(* escape_string of api/utils.py                                           *)

\* The characters of a text to escape: "a", "Z" and "0" stand for the
\* letters and the digits, and the others are the characters the patterns
\* of escape_string name and some they do not name.
MaxEscaped == 2
Alphanumerics == {"a", "Z", "0"}
NamedCharacters ==
    {":", ";", ".", ",", "_", "=", "<", ">", "\"", " ", "/", "~", "!", "@",
     "#", "$", "%", "^", "&", "(", ")", "+", "-"}
Characters == Alphanumerics \cup NamedCharacters \cup {"'", "[", "{", "*"}

RECURSIVE CharTexts(_)
CharTexts(n) ==
    IF n = 0 THEN {<< >>}
    ELSE CharTexts(n - 1) \cup
         {Append(t, c) : t \in {u \in CharTexts(n - 1) : Len(u) = n - 1},
                         c \in Characters}

Kinds == {"default", "filtering", "id", "key", "path", "uuid"}

\* The characters the pattern of a kind does not match: kind=None is
\* "default", and a kind with no branch has no pattern.
AllowedCharacters(kind) ==
    IF kind \in {"default", "filtering"}
    THEN Alphanumerics \cup NamedCharacters
    ELSE IF kind \in {"id", "uuid"}
    THEN Alphanumerics \cup {"_", "-"}
    ELSE IF kind = "key"
    THEN Alphanumerics \cup {"_", "=", "<", ">", "/", "(", ")", "@", "-"}
    ELSE IF kind = "path"
    THEN Alphanumerics \cup (NamedCharacters \ {"\"", " "})
    ELSE Characters

\* re.sub with count=1: only the first match is deleted.
RECURSIVE escape_string_first(_, _)
escape_string_first(data, kind) ==
    IF data = << >> THEN << >>
    ELSE IF Head(data) \notin AllowedCharacters(kind) THEN Tail(data)
    ELSE <<Head(data)>> \o escape_string_first(Tail(data), kind)

\* re.sub('[^...]', '', data): every character the pattern matches is
\* deleted.
escape_string(data, kind) ==
    SelectSeq(data, LAMBDA c : c \in AllowedCharacters(kind))

\* escape_string with its first branch: None is returned as it is.
escape_string_optional(none, data, kind) ==
    IF none THEN <<Null>> ELSE escape_string(data, kind)

\* SpecEscape: escape_string applied, once and to its own result, to None
\* and to every text of at most MaxEscaped characters, for every kind.
ToEscape(none, data, kind) ==
    [fn |-> "to_escape", none |-> none, data |-> data, kind |-> kind]

InitEscape ==
    /\ databases = {}
    /\ meta = [d \in DbIds |-> {}]
    /\ config = [d \in DbIds |-> DefaultConfig]
    /\ resp = Response("none", NoId, NoId, EmptyDoc, EmptyDoc, "None",
                       [PermissionError |-> 403], << >>, {})
    /\ gone = NoGone
    /\ call \in {ToEscape(FALSE, data, kind) :
                    data \in CharTexts(MaxEscaped), kind \in Kinds}
                \cup {ToEscape(TRUE, << >>, kind) : kind \in Kinds}

Escaped ==
    /\ call.fn = "to_escape"
    /\ LET once == escape_string_optional(call.none, call.data, call.kind) IN
       call' = [fn |-> "escape_string", none |-> call.none,
                data |-> call.data, kind |-> call.kind, escaped |-> once,
                twice |-> escape_string_optional(call.none, once, call.kind)]
    /\ UNCHANGED <<databases, meta, config, resp, gone>>

NextEscape == Escaped

SpecEscape == InitEscape /\ [][NextEscape]_vars

\* The allow-lists as C22 states them.
StatedCharacters(kind) ==
    IF kind \in {"id", "uuid"} THEN Alphanumerics \cup {"_", "-"}
    ELSE IF kind = "key"
    THEN Alphanumerics \cup {"_", "=", "<", ">", "/", "(", ")", "@", "-"}
    ELSE Alphanumerics \cup
         {":", ";", ".", ",", "_", "=", "<", ">", "\"", "'", "/", "~", "!",
          "@", "#", "$", "%", "^", "&", "(", ")", "+", "-"}

\* C22: for each kind, escape_string returns its input without the
\* characters outside the allow-list of the kind, the others in their
\* order: alphanumerics, "_" and "-" for id and uuid; alphanumerics and
\* _ = < > / ( ) @ - for key; alphanumerics and
\* : ; . , _ = < > " ' / ~ ! @ # $ % ^ & ( ) + - for path, filtering and no
\* kind; None is returned as None.
C22_EscapeKeepsAllowList ==
    call.fn = "escape_string" =>
        IF call.none THEN call.escaped = <<Null>>
        ELSE call.escaped =
                SelectSeq(call.data, LAMBDA c : c \in StatedCharacters(call.kind))

\* C23: escape_string applied to its own result returns that result, for
\* every kind and every input.
C23_EscapeIdempotent ==
    call.fn = "escape_string" => call.twice = call.escaped

\* A text of a character the kind deletes and one it keeps was escaped.
C23_Witness ==
    /\ call.fn = "escape_string"
    /\ call.kind = "id"
    /\ call.data = <<"[", "a">>
    /\ call.escaped = <<"a">>
    /\ call.twice = <<"a">>

----------------------------------------------------------------------------
(* The documents of the databases                                          *)

\* SpecDatabases: two databases are created, patched, read and deleted.
TwoDbIds == {"d1", "d2"}
TwoDbPayloads(d) ==
    { [database_id |-> d], [database_id |-> d, name |-> "v1"] }
TwoDbPatches(d) ==
    { [name |-> "v2"], [tag |-> "t1"], [database_id |-> d, name |-> "v1"],
      [database_id |-> "abc"] }

NextDatabases ==
    \E d \in TwoDbIds :
        \/ \E data \in TwoDbPayloads(d) :
               create_database(data, TRUE, TRUE) /\ UNCHANGED call
        \/ get_database(d, TRUE, TRUE) /\ UNCHANGED call
        \/ \E data \in TwoDbPatches(d) :
               update_database(d, data, TRUE, TRUE) /\ UNCHANGED call
        \/ delete_database(d, TRUE, TRUE) /\ UNCHANGED call

SpecDatabases == Init /\ [][NextDatabases]_vars

\* The stored document of the database id d.
StoredDatabase(dbs, d) == CHOOSE x \in DbRows(dbs, d) : TRUE

\* C24: after an update_database(d, patch) that succeeds, the stored
\* document of d has the value of the patch for every key of the patch and
\* the value it had for every other key, its database_id is d, and the
\* documents of the other databases are as they were; a get_database(d)
\* answers the stored document.
C24_UpdateDatabaseMerges ==
    [][ /\ ( resp'.op = "update_database" /\ resp'.status = 200 )
           => LET d == resp'.db
                  patch == resp'.data
                  old == StoredDatabase(databases, d)
                  new == StoredDatabase(databases', d)
              IN  /\ DbRows(databases', d) = {new}
                  /\ DOMAIN new = (DOMAIN old) \cup (DOMAIN patch)
                  /\ \A k \in DOMAIN patch : new[k] = patch[k]
                  /\ \A k \in (DOMAIN old) \ (DOMAIN patch) : new[k] = old[k]
                  /\ new.database_id = d
                  /\ \A x \in databases \cup databases' :
                         x.database_id # d => x \in databases \cap databases'
                  /\ resp'.docs = <<filter_data(new, {})>>
        /\ ( resp'.op = "get_database" /\ resp'.status = 200 )
           => resp'.docs = <<filter_data(StoredDatabase(databases', resp'.db), {})>>
      ]_vars

\* A database that had a tag was given a new name while another database
\* was stored, and the document kept its tag.
C24_Witness ==
    /\ resp.op = "update_database"
    /\ resp.status = 200
    /\ resp.data = [name |-> "v2"]
    /\ \E x \in databases :
           /\ x.database_id = resp.db
           /\ x.name = "v2"
           /\ "tag" \in DOMAIN x
    /\ \E x \in databases : x.database_id # resp.db

----------------------------------------------------------------------------
(* The index columns of a stored file                                      *)

\* SpecFiles: files are created with and without a record_id, patched
\* through update_file and update_record, read and deleted, under the
\* default config (index columns record_id and path).
FilePayloads ==
    { [path |-> "p1"], [record_id |-> "r1", path |-> "p2"] }
FilePatches ==
    { [record_id |-> "r2"], [path |-> "p3"], [description |-> "v2"] }

NextFiles ==
    \E d \in DbIds :
        \/ create_database([database_id |-> d], TRUE, TRUE) /\ UNCHANGED call
        \/ \E data \in FilePayloads :
               create_file(d, data, TRUE, TRUE) /\ UNCHANGED call
        \/ \E uuid \in Uuids(d) : get_file(d, uuid, TRUE, TRUE) /\ UNCHANGED call
        \/ list_files(d, TRUE, TRUE) /\ UNCHANGED call
        \/ \E uuid \in Uuids(d), data \in FilePatches :
               update_file(d, uuid, data, TRUE, TRUE) /\ UNCHANGED call
        \/ \E rid \in RecordIds, data \in FilePatches :
               update_record(d, rid, data, TRUE, TRUE) /\ UNCHANGED call
        \/ \E uuid \in Uuids(d) : delete_file(d, uuid, TRUE, TRUE) /\ UNCHANGED call

SpecFiles == Init /\ [][NextFiles]_vars

\* The value a row has for a key, NoValue for a key it does not have.
ValueOf(x, k) == IF k \in DOMAIN x THEN x[k] ELSE NoValue

\* C25: between its creation and its deletion a stored file keeps its
\* _uuid and the values of its index columns, under every update_file and
\* update_record; an update_file whose patch gives an index column another
\* value than the stored one is answered 400 (InvalidData) and leaves the
\* row as it was.
C25_IndexColumnsOfFileKept ==
    [][ resp'.op \in {"update_file", "update_record"} =>
          LET d == resp'.db
              index == Range(config[d].index_columns)
          IN  /\ \A x \in meta[d] : \E y \in meta'[d] :
                     /\ y["_uuid"] = x["_uuid"]
                     /\ \A k \in index : ValueOf(y, k) = ValueOf(x, k)
              /\ ( /\ resp'.op = "update_file"
                   /\ validate_input_data(resp'.data) = "None"
                   /\ \E x \in FileRows(meta[d], resp'.uuid) :
                          \E k \in index \cap DOMAIN resp'.data :
                              ValueOf(x, k) # resp'.data[k] )
                 => /\ resp'.status = 400
                    /\ resp'.exc = "InvalidData"
                    /\ meta' = meta
      ]_vars

----------------------------------------------------------------------------
(* Requests that run at the same time                                      *)

\* Each request is handled on its own: _update_record and _delete_record
\* check that the record exists, read its rows into their handler, change
\* the rows of the handler and save them, with no lock between the steps.
\* call holds the requests in flight: where each is (pc), its record id and
\* body, the rows its handler read (snapshot), and whether another request
\* saved after it read (stale).  Each request runs once.
MaxRequests == 2
Requests == 1..MaxRequests

Idle ==
    [pc |-> "idle", op |-> "none", rid |-> NoId, data |-> EmptyDoc,
     snapshot |-> {}, stale |-> FALSE, status |-> 0]

InFlight(reqs) == [fn |-> "requests", req |-> reqs]

InitRace ==
    /\ databases = {}
    /\ meta = [d \in DbIds |-> {}]
    /\ config = [d \in DbIds |-> DefaultConfig]
    /\ resp = Response("none", NoId, NoId, EmptyDoc, EmptyDoc, "None",
                       [PermissionError |-> 403], << >>, {})
    /\ gone = NoGone
    /\ call = InFlight([i \in Requests |-> Idle])

UuidsOf(rows) == {x["_uuid"] : x \in rows}

\* A save that patches the rows as they are stored when it runs.
Upsert_current(rows, snapshot, info) ==
    PatchRows(rows, {x \in rows : x["_uuid"] \in UuidsOf(snapshot)}, info)

\* "Update data one-by-one" and "Save" of a handler that read snapshot: each
\* row of the handler, patched, overwrites the stored row of its _uuid.
Upsert(rows, snapshot, info) ==
    {x \in rows : x["_uuid"] \notin UuidsOf(snapshot)}
    \cup {Merge(y, info) : y \in snapshot}

\* "Remove metadata" and save: the rows the handler read are removed.
Remove(rows, snapshot) ==
    {x \in rows : x["_uuid"] \notin UuidsOf(snapshot)}

\* The request i is over, with the status of its answer.
Finished(i, op, rid, data, status) ==
    [call.req EXCEPT
        ![i] = [pc |-> "done", op |-> op, rid |-> rid, data |-> data,
                snapshot |-> call.req[i].snapshot,
                stale |-> call.req[i].stale, status |-> status]]

\* The request i saved: every other request that has read and not yet
\* saved holds rows that are older than the stored ones.
Saved(i, pc, status) ==
    [j \in Requests |->
        IF j = i THEN [call.req[i] EXCEPT !.pc = pc, !.status = status]
        ELSE IF call.req[j].pc \in {"save", "remove"}
        THEN [call.req[j] EXCEPT !.stale = TRUE]
        ELSE call.req[j]]

\* update_record up to "Check the existence of the record-id".
BeginUpdateRecord(i, d, rid, data) ==
    LET pre == Gate(data, TRUE)
        exc == IF pre # "None" THEN pre ELSE _get_record(meta[d], rid).exc
        answer == Response("update_record", d, rid, EmptyDoc, data, exc,
                           CaughtUpdateRecord, << >>, {})
    IN  /\ call.req[i].pc = "idle"
        /\ IF exc # "None"
           THEN /\ resp' = answer
                /\ call' = InFlight([call.req EXCEPT
                              ![i] = [pc |-> "done", op |-> "update_record",
                                      rid |-> rid, data |-> data,
                                      snapshot |-> {}, stale |-> FALSE,
                                      status |-> answer.status]])
           ELSE /\ resp' = resp
                /\ call' = InFlight([call.req EXCEPT
                              ![i] = [pc |-> "read", op |-> "update_record",
                                      rid |-> rid, data |-> data,
                                      snapshot |-> {}, stale |-> FALSE,
                                      status |-> 0]])
        /\ UNCHANGED <<databases, meta, config, gone>>

\* "Execute query and read DB", "List-up keys" and "Check keys".
ReadUpdateRecord(i, d) ==
    LET r == call.req[i]
        group == RecordRows(meta[d], r.rid)
        keys == keys_to_add(group, r.data) \cup keys_to_update(group, r.data)
        refused == \E k \in keys : KeyRefused(config[d], k)
        answer == Response("update_record", d, r.rid, EmptyDoc, r.data,
                           "InvalidData", CaughtUpdateRecord, << >>, {})
    IN  /\ r.pc = "read"
        /\ r.op = "update_record"
        /\ IF refused
           THEN /\ resp' = answer
                /\ call' = InFlight(Finished(i, r.op, r.rid, r.data,
                                             answer.status))
           ELSE /\ resp' = resp
                /\ call' = InFlight([call.req EXCEPT
                              ![i] = [r EXCEPT !.pc = "save",
                                               !.snapshot = group]])
        /\ UNCHANGED <<databases, meta, config, gone>>

\* "Update data one-by-one" and "Save".
SaveUpdateRecord(i, d) ==
    LET r == call.req[i] IN
    /\ r.pc = "save"
    /\ meta' = [meta EXCEPT ![d] = Upsert(meta[d], r.snapshot, r.data)]
    /\ databases' = MetaSave(databases, d)
    /\ call' = InFlight(Saved(i, "reread", 0))
    /\ UNCHANGED <<config, resp, gone>>

\* "Return": the record is read again for the answer.
RereadUpdateRecord(i, d) ==
    LET r == call.req[i]
        again == _get_record(meta[d], r.rid)
        answer == Response("update_record", d, r.rid, EmptyDoc, r.data,
                           again.exc, CaughtUpdateRecord,
                           <<filter_data(again.val, {})>>, {})
    IN  /\ r.pc = "reread"
        /\ resp' = answer
        /\ call' = InFlight(Finished(i, r.op, r.rid, r.data, answer.status))
        /\ UNCHANGED <<databases, meta, config, gone>>

\* delete_record up to "Check the existence".
BeginDeleteRecord(i, d, rid) ==
    LET exc == _get_record(meta[d], rid).exc
        answer == Response("delete_record", d, rid, EmptyDoc, EmptyDoc, exc,
                           CaughtDeleteRecord, << >>, {})
    IN  /\ call.req[i].pc = "idle"
        /\ IF exc # "None"
           THEN /\ resp' = answer
                /\ call' = InFlight([call.req EXCEPT
                              ![i] = [pc |-> "done", op |-> "delete_record",
                                      rid |-> rid, data |-> EmptyDoc,
                                      snapshot |-> {}, stale |-> FALSE,
                                      status |-> answer.status]])
           ELSE /\ resp' = resp
                /\ call' = InFlight([call.req EXCEPT
                              ![i] = [pc |-> "read", op |-> "delete_record",
                                      rid |-> rid, data |-> EmptyDoc,
                                      snapshot |-> {}, stale |-> FALSE,
                                      status |-> 0]])
        /\ UNCHANGED <<databases, meta, config, gone>>

\* "Execute query and read DB" and "Copy metadata to delete".
ReadDeleteRecord(i, d) ==
    LET r == call.req[i] IN
    /\ r.pc = "read"
    /\ r.op = "delete_record"
    /\ call' = InFlight([call.req EXCEPT
                  ![i] = [r EXCEPT !.pc = "remove",
                                   !.snapshot = RecordRows(meta[d], r.rid)]])
    /\ UNCHANGED <<databases, meta, config, resp, gone>>

\* "Remove metadata", save and the answer.
SaveDeleteRecord(i, d) ==
    LET r == call.req[i] IN
    /\ r.pc = "remove"
    /\ meta' = [meta EXCEPT ![d] = Remove(meta[d], r.snapshot)]
    /\ databases' = MetaSave(databases, d)
    /\ resp' = Response("delete_record", d, r.rid, EmptyDoc, EmptyDoc, "None",
                        CaughtDeleteRecord,
                        <<[database_id |-> d, record_id |-> r.rid]>>, {})
    /\ gone' = Gone("record", d, r.rid, EmptyDoc)
    /\ call' = InFlight(Saved(i, "done", 200))
    /\ UNCHANGED config

\* SpecRace: a record of one or two files, and two requests at a time that
\* patch it or delete it, step by step in any order.
RaceRecords ==
    { [record_id |-> "r1", path |-> "p1"], [record_id |-> "r1", path |-> "p2"] }
RacePatches == { [description |-> "v2"], [tag |-> "t1"], [path |-> "p3"] }
RaceRecordIds == {"r1"}

NextRace ==
    \E d \in DbIds :
        \/ create_database([database_id |-> d], TRUE, TRUE) /\ UNCHANGED call
        \/ \E data \in RaceRecords :
               create_record(d, data, "r1", TRUE, TRUE) /\ UNCHANGED call
        \/ \E rid \in RaceRecordIds :
               get_record(d, rid, TRUE, TRUE) /\ UNCHANGED call
        \/ \E i \in Requests, rid \in RaceRecordIds, data \in RacePatches :
               BeginUpdateRecord(i, d, rid, data)
        \/ \E i \in Requests : ReadUpdateRecord(i, d)
        \/ \E i \in Requests : SaveUpdateRecord(i, d)
        \/ \E i \in Requests : RereadUpdateRecord(i, d)
        \/ \E i \in Requests, rid \in RaceRecordIds : BeginDeleteRecord(i, d, rid)
        \/ \E i \in Requests : ReadDeleteRecord(i, d)
        \/ \E i \in Requests : SaveDeleteRecord(i, d)

SpecRace == InitRace /\ [][NextRace]_vars

\* The request i takes the step that saves its patched rows.
SavesUpdate(i) ==
    /\ call.fn = "requests"
    /\ call.req[i].pc = "save"
    /\ call'.req[i].pc = "reread"

\* C26: two update_record requests on one record are not serialized: the
\* request that saves writes the rows it read itself, patched with its own
\* body, over the stored rows of the same _uuid, whatever was saved since it
\* read them; the rows it did not read stay as they are.  So the stored rows
\* are those of the request that saved last, and what the other request
\* saved in between is lost.
C26_LastSaveWins ==
    [][\A i \in Requests, d \in DbIds :
          SavesUpdate(i) =>
              LET r == call.req[i] IN
              /\ {x \in meta'[d] : x["_uuid"] \in UuidsOf(r.snapshot)}
                     = {Merge(y, r.data) : y \in r.snapshot}
              /\ {x \in meta'[d] : x["_uuid"] \notin UuidsOf(r.snapshot)}
                     = {x \in meta[d] : x["_uuid"] \notin UuidsOf(r.snapshot)}]_vars

\* Two patches of different keys both answered 200, and the key of the
\* request that saved first is in no stored row of the record.
C26_Witness ==
    /\ call.fn = "requests"
    /\ \E i, j \in Requests, d \in DbIds :
          LET first == call.req[i]
              last == call.req[j]
              rows == RecordRows(meta[d], last.rid)
          IN  /\ i # j
              /\ first.op = "update_record" /\ last.op = "update_record"
              /\ first.pc = "done" /\ last.pc = "done"
              /\ first.status = 200 /\ last.status = 200
              /\ first.rid = last.rid
              /\ DOMAIN first.data \cap DOMAIN last.data = {}
              /\ last.stale
              /\ ~first.stale
              /\ rows # {}
              /\ \A x \in rows :
                    /\ DOMAIN last.data \subseteq DOMAIN x
                    /\ DOMAIN first.data \cap DOMAIN x = {}

\* C27: once delete_record has answered for a record and no create of it
\* followed, no row of the record is stored and get_record answers 404, also
\* when an update_record that read the rows before the delete saves after
\* it.
C27_DeletedRecordStaysAbsent ==
    gone.kind = "record" =>
        /\ RecordRows(meta[gone.db], gone.rid) = {}
        /\ (resp.op = "get_record" /\ resp.db = gone.db /\ resp.id = gone.rid)
               => resp.status = 404

----------------------------------------------------------------------------
(* The uuid of a file in the answers                                       *)

\* SpecUuid: files whose bodies pass validate_input_data, one of them with a
\* key "uuid" of its own (no "_" or "." in front, so it is let through), are
\* created, read, listed, patched and deleted.
OtherUuid == Uuid([path |-> "p1"], DefaultConfig)
UuidPayloads ==
    { [path |-> "p1"], [record_id |-> "r1", path |-> "p1"],
      [path |-> "p2", uuid |-> OtherUuid] }
UuidPatches == { [description |-> "v2"] }

NextUuid ==
    \E d \in DbIds :
        \/ create_database([database_id |-> d], TRUE, TRUE) /\ UNCHANGED call
        \/ \E data \in UuidPayloads :
               create_file(d, data, TRUE, TRUE) /\ UNCHANGED call
        \/ \E uuid \in Uuids(d) : get_file(d, uuid, TRUE, TRUE) /\ UNCHANGED call
        \/ list_files(d, TRUE, TRUE) /\ UNCHANGED call
        \/ \E uuid \in Uuids(d), data \in UuidPatches :
               update_file(d, uuid, data, TRUE, TRUE) /\ UNCHANGED call
        \/ \E uuid \in Uuids(d) : delete_file(d, uuid, TRUE, TRUE) /\ UNCHANGED call

SpecUuid == Init /\ [][NextUuid]_vars

\* C29: every file document that create_file, get_file and list_files return
\* is that of a stored row, and its uuid is the _uuid of that row.
C29_ExposedUuidIsInternal ==
    (resp.op \in {"create_file", "get_file", "list_files"} /\ resp.status = 200)
        => \A n \in 1..Len(resp.docs) :
              /\ "uuid" \in DOMAIN resp.docs[n]
              /\ \E x \in meta[resp.db] :
                    /\ filter_data(_expose_uuid(x), resp.excluded) = resp.docs[n]
                    /\ resp.docs[n]["uuid"] = x["_uuid"]

----------------------------------------------------------------------------
(* Lists read by a caller who may not see the secret columns               *)

\* The values of the model, in the order the backend sorts them.
ValueOrder == <<NoValue, "p1", "p2", "r1", "r2", "v1", "v2">>
Rank(v) == CHOOSE i \in 1..Len(ValueOrder) : ValueOrder[i] = v

\* order_by=[(sort_key, 1)]: the documents by ascending value of the key.
RECURSIVE SortedBy(_, _)
SortedBy(docs, sort_key) ==
    IF docs = {} THEN << >>
    ELSE LET least == CHOOSE x \in docs : \A y \in docs :
                          Rank(ValueOf(x, sort_key)) <= Rank(ValueOf(y, sort_key))
         IN  <<least>> \o SortedBy(docs \ {least}, sort_key)

\* The rows which the query of a plain word finds: those where the word is
\* in the value of one of the search columns.
MatchingAny(rows, keys, search) ==
    IF search = NoSearch THEN rows
    ELSE {x \in rows : \E i \in 1..Len(keys) :
             keys[i] \in DOMAIN x /\ x[keys[i]] = search}

\* search_key of the request: None, or the list of keys of the caller.
search_key_or(search_key, default) ==
    IF search_key.none THEN default ELSE search_key.keys

\* _list_records with the sort key, the word and the search keys of the
\* request.
_list_records_by(dbs, rows, cfg, d, sort_key, per_page, page, search, search_key) ==
    LET got == _get_database(dbs, d)
        keys == search_key_or(search_key, <<"record_id">>)
        found == SortedBy({GroupedDoc(RecordRows(rows, rid)) :
                             rid \in RecordIdsOf(MatchingAny(rows, keys, search))},
                          sort_key)
    IN  IF got.exc # "None" THEN NotListed(got.exc)
        ELSE IF validate_sort_key(sort_key, cfg) # "None"
        THEN NotListed("InvalidSortKey")
        ELSE Listed(Slice(found, Begin(page, per_page), per_page),
                    Len(found), per_page)

\* _list_files likewise; the sort key is not validated against a fixed one.
_list_files_by(dbs, rows, cfg, d, rid, sort_key, per_page, page, search, search_key) ==
    LET got == _get_database(dbs, d)
        keys == search_key_or(search_key, <<"path">>)
        found == SortedBy(MatchingAny(IF rid = NoId THEN rows
                                      ELSE RecordRows(rows, rid), keys, search),
                          sort_key)
    IN  IF got.exc # "None" THEN NotListed(got.exc)
        ELSE IF validate_sort_key(sort_key, cfg) # "None"
        THEN NotListed("InvalidSortKey")
        ELSE Listed(Slice(found, Begin(page, per_page), per_page),
                    Len(found), per_page)

\* What the caller receives of a list: the status and the body.
ListAnswer(r, caught, docs) ==
    [status |-> StatusOf(r.exc, caught), data |-> docs, total |-> r.total,
     number_of_pages |-> r.number_of_pages, length |-> r.length]

\* The stores that differ from rows only in the values of the secret
\* columns.
SecretValues == {"v1", "v2"}
Twins(rows, secrets) ==
    {{[k \in DOMAIN x |-> IF k \in secrets THEN f[x][k] ELSE x[k]] : x \in rows} :
        f \in [rows -> [secrets -> SecretValues]]}

ListByCall(op, sort_key, search, search_key, permitted, readAll, answers) ==
    call' = [fn |-> op, sort_key |-> sort_key, search |-> search,
             search_key |-> search_key, permitted |-> permitted,
             readAll |-> readAll, answers |-> answers]

\* list_records, with the answer the same request gets on every store that
\* differs only in secret values.
list_records_by(d, sort_key, per_page, page, search, search_key, permitted, readAll) ==
    LET excluded == Excluded(d, readAll)
        r(rows) == IF ~permitted THEN NotListed("PermissionError")
                   ELSE _list_records_by(databases, rows, config[d], d, sort_key,
                                         per_page, page, search, search_key)
        answer(rows) == ListAnswer(r(rows), CaughtListRecords,
                                   FilterAll(r(rows).val, excluded))
    IN  /\ resp' = Response("list_records", d, NoId, EmptyDoc, EmptyDoc,
                            r(meta[d]).exc, CaughtListRecords,
                            FilterAll(r(meta[d]).val, excluded), excluded)
        /\ ListByCall("list_records", sort_key, search, search_key, permitted,
                      readAll,
                      {answer(t) : t \in Twins(meta[d],
                                               get_secret_columns(config[d]))})
        /\ UNCHANGED <<databases, meta, config, gone>>

list_files_by(d, rid, sort_key, per_page, page, search, search_key, permitted, readAll) ==
    LET excluded == Excluded(d, readAll)
        r(rows) == IF ~permitted THEN NotListed("PermissionError")
                   ELSE _list_files_by(databases, rows, config[d], d, rid,
                                       sort_key, per_page, page, search,
                                       search_key)
        answer(rows) == ListAnswer(r(rows), CaughtListFiles,
                                   FilterAll(ExposeAll(r(rows).val), excluded))
    IN  /\ resp' = Response("list_files", d, rid, EmptyDoc, EmptyDoc,
                            r(meta[d]).exc, CaughtListFiles,
                            FilterAll(ExposeAll(r(meta[d]).val), excluded),
                            excluded)
        /\ ListByCall("list_files", sort_key, search, search_key, permitted,
                      readAll,
                      {answer(t) : t \in Twins(meta[d],
                                               get_secret_columns(config[d]))})
        /\ UNCHANGED <<databases, meta, config, gone>>

\* SpecSecret: a database whose column "description" is made secret, records
\* with and without a description, and lists with the sort key, the word and
\* the search keys a caller can send.
SecretConfigs == { [columns |-> DefaultColumns \o <<SecretColumn>>] }
SecretRecords ==
    { [record_id |-> "r1", path |-> "p1", description |-> "v1"],
      [record_id |-> "r2", path |-> "p2", description |-> "v2"],
      [record_id |-> "r2", path |-> "p2"] }
SortKeys == {"record_id", "description", "tag"}
SecretPerPages == {MaxPerPage}
SecretPages == {1}
SearchWords == {NoSearch, "v1"}
SearchKeys ==
    { [none |-> TRUE, keys |-> << >>],
      [none |-> FALSE, keys |-> <<"path", "description">>] }

NextSecret ==
    \E d \in DbIds :
        \/ create_database([database_id |-> d], TRUE, TRUE) /\ UNCHANGED call
        \/ \E data \in SecretConfigs :
               update_config(d, data, TRUE, TRUE) /\ UNCHANGED call
        \/ \E data \in SecretRecords :
               create_record(d, data, "r1", TRUE, TRUE) /\ UNCHANGED call
        \/ \E sort_key \in SortKeys, per_page \in SecretPerPages,
              page \in SecretPages, search \in SearchWords,
              search_key \in SearchKeys, readAll \in BOOLEAN :
               list_records_by(d, sort_key, per_page, page, search, search_key,
                               TRUE, readAll)
        \/ \E rid \in {NoId}, sort_key \in SortKeys,
              per_page \in SecretPerPages, page \in SecretPages,
              search \in SearchWords, search_key \in SearchKeys,
              readAll \in BOOLEAN :
               list_files_by(d, rid, sort_key, per_page, page, search,
                             search_key, TRUE, readAll)

SpecSecret == Init /\ [][NextSecret]_vars

\* C28: to a caller without metadata:read, list_records and list_files
\* answer the same on any two stores that differ only in the values of the
\* secret columns, whatever the word, the search keys and the sort key.
C28_SecretValuesDoNotShow ==
    (call.fn \in {"list_records", "list_files"} /\ ~call.readAll)
        => Cardinality(call.answers) = 1

----------------------------------------------------------------------------
(* Lists with a page or a page size below one                              *)

\* page and per_page are integers of the caller; nothing checks their sign.
LowNumbers == {-1, 0}
AnyPages == LowNumbers \cup Pages
AnyPerPages == LowNumbers \cup PerPages

\* items[start:stop] of Python: a negative index counts from the end, and
\* both ends are clipped to the list.
PyIndex(i, n) ==
    IF i < 0 THEN (IF i + n < 0 THEN 0 ELSE i + n)
    ELSE IF i > n THEN n ELSE i

PySlice(items, start, stop) ==
    SubSeq(items, PyIndex(start, Len(items)) + 1, PyIndex(stop, Len(items)))

\* math.ceil(total / per_page) for a divisor that is not zero.
PyCeil(total, per_page) ==
    IF per_page > 0 THEN Ceil(total, per_page)
    ELSE 0 - (total \div (0 - per_page))

\* _list_databases: the slice and the division are Python's own.
_list_databases_at(dbs, per_page, page, permitted_ids) ==
    LET all_data == SeqOf(dbs)
        permitted_database_objects == FilterPermitted(all_data, permitted_ids)
        begin == Begin(page, per_page)
        paged_data == PySlice(permitted_database_objects, begin, begin + per_page)
    IN  IF per_page = 0 THEN NotListed("ZeroDivisionError")
        ELSE [exc |-> "None", val |-> paged_data,
              total |-> Len(permitted_database_objects),
              number_of_pages |-> PyCeil(Len(permitted_database_objects), per_page),
              length |-> Len(paged_data)]

\* What handler.read does with a limit below one or an offset below zero is
\* the backend's: it may ignore them and hand back the rows, hand back
\* nothing, or raise.
BackendReads == {"rows", "nothing", "AssertionError", "OperationFailure"}

\* The page the backend reads, and the division that follows the read.
ReadPage(found, per_page, page, read) ==
    LET begin == Begin(page, per_page)
        in_range == per_page >= 1 /\ begin >= 0
    IN  IF ~in_range /\ read \notin {"rows", "nothing"} THEN NotListed(read)
        ELSE IF per_page = 0 THEN NotListed("ZeroDivisionError")
        ELSE LET data == IF in_range THEN Slice(found, begin, per_page)
                         ELSE IF read = "rows" THEN found ELSE << >>
             IN  [exc |-> "None", val |-> data, total |-> Len(found),
                  number_of_pages |-> PyCeil(Len(found), per_page),
                  length |-> Len(data)]

_list_records_at(dbs, rows, cfg, d, per_page, page, read) ==
    LET got == _get_database(dbs, d)
        found == SeqOf({GroupedDoc(RecordRows(rows, rid)) :
                          rid \in RecordIdsOf(rows)})
    IN  IF got.exc # "None" THEN NotListed(got.exc)
        ELSE IF validate_sort_key("record_id", cfg) # "None"
        THEN NotListed("InvalidSortKey")
        ELSE ReadPage(found, per_page, page, read)

_list_files_at(dbs, rows, cfg, d, per_page, page, read) ==
    LET got == _get_database(dbs, d) IN
    IF got.exc # "None" THEN NotListed(got.exc)
    ELSE IF validate_sort_key("path", cfg) # "None"
    THEN NotListed("InvalidSortKey")
    ELSE ReadPage(SeqOf(rows), per_page, page, read)

PageCall(op, per_page, page, read) ==
    call' = [fn |-> op, per_page |-> per_page, page |-> page, read |-> read]

list_databases_at(per_page, page, permitted_ids) ==
    LET r == _list_databases_at(databases, per_page, page, permitted_ids) IN
    /\ resp' = Response("list_databases", NoId, NoId, EmptyDoc, EmptyDoc,
                        r.exc, CaughtListDatabases, FilterAll(r.val, {}), {})
    /\ PageCall("list_databases", per_page, page, "rows")
    /\ UNCHANGED <<databases, meta, config, gone>>

list_records_at(d, per_page, page, read) ==
    LET r == _list_records_at(databases, meta[d], config[d], d, per_page, page,
                              read)
    IN  /\ resp' = Response("list_records", d, NoId, EmptyDoc, EmptyDoc, r.exc,
                            CaughtListRecords, FilterAll(r.val, {}), {})
        /\ PageCall("list_records", per_page, page, read)
        /\ UNCHANGED <<databases, meta, config, gone>>

list_files_at(d, per_page, page, read) ==
    LET r == _list_files_at(databases, meta[d], config[d], d, per_page, page,
                            read)
    IN  /\ resp' = Response("list_files", d, NoId, EmptyDoc, EmptyDoc, r.exc,
                            CaughtListFiles, FilterAll(ExposeAll(r.val), {}), {})
        /\ PageCall("list_files", per_page, page, read)
        /\ UNCHANGED <<databases, meta, config, gone>>

\* SpecBounds: up to two databases and two records, listed with pages and
\* page sizes from -1 upwards.
BoundsPermitted == { {"d1"}, TwoDbIds }

NextBounds ==
    \/ \E d \in TwoDbIds :
           create_database([database_id |-> d], TRUE, TRUE) /\ UNCHANGED call
    \/ \E d \in DbIds, data \in ListRecords :
           create_record(d, data, "r1", TRUE, TRUE) /\ UNCHANGED call
    \/ \E per_page \in AnyPerPages, page \in AnyPages,
          permitted_ids \in BoundsPermitted :
           list_databases_at(per_page, page, permitted_ids)
    \/ \E d \in DbIds, per_page \in AnyPerPages, page \in AnyPages,
          read \in BackendReads :
           list_records_at(d, per_page, page, read)
    \/ \E d \in DbIds, per_page \in AnyPerPages, page \in AnyPages,
          read \in BackendReads :
           list_files_at(d, per_page, page, read)

SpecBounds == Init /\ [][NextBounds]_vars

\* A list was answered for a page or a page size below one.
BelowOne ==
    /\ call.fn \in {"list_databases", "list_records", "list_files"}
    /\ resp.op = call.fn
    /\ (call.page < 1 \/ call.per_page < 1)

\* C30: a list called with page < 1 or per_page < 1 returns no stored row
\* and does not fail with an unhandled error (a 500): its answer is an empty
\* page or a refusal.
C30_BelowOneIsEmptyOr400 ==
    BelowOne => /\ resp.docs = << >>
                /\ resp.status # 500

====
